---------------------------- MODULE Spec2Model ----------------------------
(***************************************************************************)
(* A model of the 2D panel-method core of the aerodynamics visualizer:     *)
(*   - panel assembly (buildPanels, polygonArea, findTrailingEdgePanels),  *)
(*   - the panel-method solver (solvePanelMethod, solveLinearSystem),      *)
(*   - the streamline integrator (integrateStreamline, both variants).     *)
(*                                                                         *)
(* Numbers.  The code computes in IEEE doubles; the model computes         *)
(* exactly: contour coordinates are integers, solver quantities are        *)
(* rationals <<num, den>> in lowest terms with den > 0.  Rounding is       *)
(* therefore not modelled: a property stated here with "=" corresponds to  *)
(* "equal up to rounding" in the code.                                     *)
(*                                                                         *)
(* Length unit of the contour grid.  buildPanels compares a distance with  *)
(* 1e-6; everything else in it is scale free.  Contour points lie on a     *)
(* grid of even integers (so that panel midpoints are integers too) and    *)
(* the unit is chosen so that 1e-6 m is Sqrt(CloseTolSq) units.            *)
(***************************************************************************)
EXTENDS Integers, Sequences, FiniteSets, TLC

VARIABLES
    pc,        \* position inside the modelled call
    contour,   \* the caller's point array (input of buildPanels)
    closed,    \* buildPanels: the loop after the closing step
    points,    \* buildPanels: the loop after orientation normalisation
    panels,    \* buildPanels: the emitted panels
    te,        \* findTrailingEdgePanels: [upperIndex, lowerIndex] (0-based)
    inp,       \* solvePanelMethod: Vinf, alpha (as cos/sin) and the influence terms
    sys,       \* solvePanelMethod: the assembled system [A, b]
    lin,       \* solveLinearSystem: what it computed
    out,       \* solvePanelMethod: the returned PanelMethodSolution
    stream,    \* integrateStreamline: its arguments, the tracer p, i and points
    vel,       \* velocityFromPanels: the point's influence terms and the result
    foil,      \* generateNaca4Airfoil: its arguments, locals and result
    lift,      \* thinAirfoilLiftCoefficient: its arguments and result
    heap,      \* the arrays and vectors a call reads and writes, by identity
    frame,     \* the references held by the locals of that call
    scene      \* the airfoil scene: its streamline group and GPU resources

geomVars == <<contour, closed, points, panels, te>>
solveVars == <<inp, sys, lin, out>>
evalVars == <<vel, foil, lift, heap, frame, scene>>
vars == <<pc, geomVars, solveVars, stream, evalVars>>

---------------------------------------------------------------------------
(* Bounds of the contour inputs *)

\* longest input contour (number of points)
MaxPts == 4

\* grid coordinates of contour points (even, so midpoints are integral)
GridCoord == {-2, 0, 2}

GridPoint == GridCoord \X GridCoord

Contours == UNION { [1..n -> GridPoint] : n \in 0..MaxPts }

\* (1e-6)^2 in squared grid units: grid neighbours (distance 2) coincide
\* within the tolerance, diagonal neighbours (distance Sqrt(8)) do not.
CloseTolSq == 8

---------------------------------------------------------------------------
(* Vector helpers (three.js Vector2 on exact coordinates) *)

Dist2(a, b) == (a[1] - b[1]) * (a[1] - b[1]) + (a[2] - b[2]) * (a[2] - b[2])

Reverse(s) == [i \in 1..Len(s) |-> s[Len(s) + 1 - i]]

Min2(a, b) == IF a < b THEN a ELSE b
Max2(a, b) == IF a > b THEN a ELSE b

---------------------------------------------------------------------------
(* Panel assembly *)

\* polygonArea: the shoelace sum over the cyclic point list.  The code
\* returns 0.5 * sum; the model returns sum (twice the signed area), which
\* has the same sign and keeps the value integral.
RECURSIVE ShoelaceSum(_, _)
ShoelaceSum(pts, i) ==
    IF i > Len(pts) THEN 0
    ELSE LET a == pts[i]
             b == pts[(i % Len(pts)) + 1]
         IN  (a[1] * b[2] - b[1] * a[2]) + ShoelaceSum(pts, i + 1)

polygonArea(pts) == ShoelaceSum(pts, 1)

\* mutant of closeLoop: the closing point is never appended
closeLoopNeverAppends(c) == c

\* the closing step: first.distanceTo(last) < 1e-6 ? contour : [...contour, first]
closeLoop(c) ==
    IF Dist2(c[1], c[Len(c)]) < CloseTolSq THEN c ELSE Append(c, c[1])

\* mutant of orientLoop: the loop is never reversed
orientLoopNeverReverses(cl) == cl

\* the orientation step: reverse when the signed area is positive
orientLoop(cl) == IF polygonArea(cl) > 0 THEN Reverse(cl) ELSE cl

\* a panel whose end points are stored the other way round
makePanelEndsSwapped(start, end) ==
    LET dx == end[1] - start[1]
        dy == end[2] - start[2]
    IN  [start   |-> end,
         end     |-> start,
         control |-> <<(start[1] + end[1]) \div 2, (start[2] + end[2]) \div 2>>,
         tangent |-> <<dx, dy>>,
         normal  |-> <<dy, -dx>>,
         length2 |-> dx * dx + dy * dy]
\* One panel.  length2 is the squared length; tangent and normal are kept
\* as the unit vectors multiplied by the length, i.e. tangent = (dx, dy) and
\* normal = (tangent.y, -tangent.x) = (dy, -dx): the code's vectors are
\* these divided by Sqrt(length2).
makePanel(start, end) ==
    LET dx == end[1] - start[1]
        dy == end[2] - start[2]
    IN  [start   |-> start,
         end     |-> end,
         control |-> <<(start[1] + end[1]) \div 2, (start[2] + end[2]) \div 2>>,
         tangent |-> <<dx, dy>>,
         normal  |-> <<dy, -dx>>,
         length2 |-> dx * dx + dy * dy]

\* mutant of panelLoop: zero-length pairs are emitted too
RECURSIVE panelLoopKeepsZero(_, _)
panelLoopKeepsZero(pts, i) ==
    IF i > Len(pts) - 1 THEN <<>>
    ELSE <<makePanel(pts[i], pts[i + 1])>> \o panelLoopKeepsZero(pts, i + 1)

\* the panel loop: one panel per consecutive pair, zero-length pairs skipped
RECURSIVE panelLoop(_, _)
panelLoop(pts, i) ==
    IF i > Len(pts) - 1 THEN <<>>
    ELSE LET p == makePanel(pts[i], pts[i + 1])
         IN  IF p.length2 = 0 THEN panelLoop(pts, i + 1)
             ELSE <<p>> \o panelLoop(pts, i + 1)

\* an assembly that accepts two points
buildPanelsFromTwo(c) ==
    IF Len(c) < 2 THEN <<>> ELSE panelLoop(orientLoop(closeLoop(c)), 1)

buildPanels(c) ==
    IF Len(c) < 3 THEN <<>> ELSE panelLoop(orientLoop(closeLoop(c)), 1)

---------------------------------------------------------------------------
(* Trailing-edge detection *)

\* mutant of teStep: ">=" instead of ">" (the last panel wins a tie)
teStepLastOnTies(acc, panel, idx) ==
    LET x    == panel.control[1]
        y    == panel.control[2]
        hitU == y >= 0 /\ (acc.infU \/ x >= acc.maxXUpper)
        hitL == y <= 0 /\ (acc.infL \/ x >= acc.maxXLower)
    IN  [upperIndex |-> IF hitU THEN idx ELSE acc.upperIndex,
         lowerIndex |-> IF hitL THEN idx ELSE acc.lowerIndex,
         infU       |-> IF hitU THEN FALSE ELSE acc.infU,
         maxXUpper  |-> IF hitU THEN x ELSE acc.maxXUpper,
         infL       |-> IF hitL THEN FALSE ELSE acc.infL,
         maxXLower  |-> IF hitL THEN x ELSE acc.maxXLower]

\* One forEach step.  acc = [upperIndex, lowerIndex, infU, maxXUpper, infL,
\* maxXLower]; infU / infL say that the running maximum is still -Infinity.
teStep(acc, panel, idx) ==
    LET x    == panel.control[1]
        y    == panel.control[2]
        hitU == y >= 0 /\ (acc.infU \/ x > acc.maxXUpper)
        hitL == y <= 0 /\ (acc.infL \/ x > acc.maxXLower)
    IN  [upperIndex |-> IF hitU THEN idx ELSE acc.upperIndex,
         lowerIndex |-> IF hitL THEN idx ELSE acc.lowerIndex,
         infU       |-> IF hitU THEN FALSE ELSE acc.infU,
         maxXUpper  |-> IF hitU THEN x ELSE acc.maxXUpper,
         infL       |-> IF hitL THEN FALSE ELSE acc.infL,
         maxXLower  |-> IF hitL THEN x ELSE acc.maxXLower]

RECURSIVE teLoop(_, _, _)
teLoop(ps, k, acc) ==
    IF k > Len(ps) THEN acc ELSE teLoop(ps, k + 1, teStep(acc, ps[k], k - 1))

findTrailingEdgePanels(ps) ==
    LET r == teLoop(ps, 1, [upperIndex |-> 0, lowerIndex |-> Len(ps) - 1,
                            infU |-> TRUE, maxXUpper |-> 0,
                            infL |-> TRUE, maxXLower |-> 0])
    IN  [upperIndex |-> r.upperIndex, lowerIndex |-> r.lowerIndex]

---------------------------------------------------------------------------
(* Specification Spec: panel assembly and trailing-edge detection, as      *)
(* solvePanelMethod runs them, over every grid contour.                    *)

NoTE == [upperIndex |-> -1, lowerIndex |-> -1]

\* the solver's variables before (or without) a solve
NoInput == [Vinf |-> 0, cosA |-> <<1, 1>>, sinA |-> <<0, 1>>,
            selfN |-> <<1, 2>>, off |-> <<>>]
NoSystem == [A |-> <<>>, b |-> <<>>]
NoSolve == [solution |-> <<>>, pivotRows |-> <<>>, floored |-> {},
            M |-> <<>>, x |-> <<>>]
NoOutput == [panels |-> <<>>, sigma |-> <<>>, gamma |-> <<>>,
             vt |-> <<>>, cp |-> <<>>, returned |-> FALSE]
NoVelocity == [evaluated |-> FALSE, terms |-> <<>>, v |-> <<>>]
NoFoil == [called |-> FALSE]
NoLift == [called |-> FALSE]
NoHeap == <<>>
NoFrame == [fn |-> "none"]
NoScene == [created |-> FALSE]
NoStream == [seed |-> <<0, 0>>, field |-> "still", chord |-> 0,
             stagnationExit |-> FALSE, p |-> <<0, 0>>, i |-> 0, points |-> <<>>]

Init ==
    /\ pc = "input"
    /\ contour \in Contours
    /\ closed = <<>>
    /\ points = <<>>
    /\ panels = <<>>
    /\ te = NoTE
    /\ inp = NoInput
    /\ sys = NoSystem
    /\ lin = NoSolve
    /\ out = NoOutput
    /\ stream = NoStream
    /\ vel = NoVelocity
    /\ heap = NoHeap
    /\ frame = NoFrame
    /\ scene = NoScene
    /\ foil = NoFoil
    /\ lift = NoLift

\* buildPanels with fewer than 3 points: the early return
BuildPanelsShort ==
    /\ pc = "input"
    /\ Len(contour) < 3
    /\ pc' = "built"
    /\ panels' = buildPanels(contour)
    /\ UNCHANGED <<evalVars, stream, contour, closed, points, te, solveVars>>

\* buildPanels on a loop of at least 3 points
BuildPanels ==
    /\ pc = "input"
    /\ Len(contour) >= 3
    /\ pc' = "built"
    /\ closed' = closeLoop(contour)
    /\ points' = orientLoop(closeLoop(contour))
    /\ panels' = buildPanels(contour)
    /\ UNCHANGED <<evalVars, stream, contour, te, solveVars>>

\* solvePanelMethod: n = 0 returns before any trailing-edge search
ReturnEmpty ==
    /\ pc = "built"
    /\ Len(panels) = 0
    /\ pc' = "empty"
    /\ UNCHANGED <<evalVars, stream, contour, closed, points, panels, te, solveVars>>

FindTrailingEdge ==
    /\ pc = "built"
    /\ Len(panels) > 0
    /\ pc' = "done"
    /\ te' = findTrailingEdgePanels(panels)
    /\ UNCHANGED <<evalVars, stream, contour, closed, points, panels, solveVars>>

Next == BuildPanelsShort \/ BuildPanels \/ ReturnEmpty \/ FindTrailingEdge

Spec == Init /\ [][Next]_vars

---------------------------------------------------------------------------
(* Exact numbers for the solver.                                           *)
(*                                                                         *)
(* A rational is <<n, d>> with d > 0 in lowest terms.  The solver's only   *)
(* non-rational constant is the floor 1e-12 it divides by when a pivot is  *)
(* 0; (1e-6)^2, the floor of Vinf^2 in Cp, is the same number.  Dividing   *)
(* by it multiplies by W = 1e12, far outside the contour-scale rationals,  *)
(* so a solver value is kept as a polynomial in W with rational            *)
(* coefficients: the sequence <<c0, c1, ...>> stands for c0 + c1*W + ...   *)
(* with no trailing zero coefficient, and <<>> is the number 0.            *)

Abs(n) == IF n < 0 THEN -n ELSE n

RECURSIVE GCD(_, _)
GCD(a, b) == IF b = 0 THEN a ELSE GCD(b, a % b)

RNorm(n, d) ==
    LET sg == IF d < 0 THEN -1 ELSE 1
        g  == GCD(Abs(n), Abs(d))
    IN  <<(sg * n) \div g, (sg * d) \div g>>

R0 == <<0, 1>>
R1 == <<1, 1>>
RInt(k) == <<k, 1>>
RNeg(a) == <<-a[1], a[2]>>
\* sums over the least common denominator and products after cross
\* reduction, so that intermediate integers stay small
RAdd(a, b) ==
    LET g == GCD(a[2], b[2])
    IN  RNorm(a[1] * (b[2] \div g) + b[1] * (a[2] \div g), (a[2] \div g) * b[2])
RSub(a, b) == RAdd(a, RNeg(b))
RMul(a, b) ==
    LET g1 == GCD(Abs(a[1]), b[2])
        g2 == GCD(Abs(b[1]), a[2])
    IN  RNorm((a[1] \div g1) * (b[1] \div g2), (a[2] \div g2) * (b[2] \div g1))
RDiv(a, b) == RMul(a, IF b[1] < 0 THEN <<-b[2], -b[1]>> ELSE <<b[2], b[1]>>)
RAbs(a) == <<Abs(a[1]), a[2]>>
RLess(a, b) == a[1] * b[2] < b[1] * a[2]

RECURSIVE BTrim(_)
BTrim(a) ==
    IF a = <<>> THEN a
    ELSE IF a[Len(a)] = R0 THEN BTrim(SubSeq(a, 1, Len(a) - 1)) ELSE a

BRat(q) == IF q = R0 THEN <<>> ELSE <<q>>
BCoef(a, k) == IF k <= Len(a) THEN a[k] ELSE R0
BAdd(a, b) ==
    BTrim([k \in 1..Max2(Len(a), Len(b)) |-> RAdd(BCoef(a, k), BCoef(b, k))])
BScale(q, a) == BTrim([k \in 1..Len(a) |-> RMul(q, a[k])])
BSub(a, b) == BAdd(a, BScale(RInt(-1), b))
BDivRat(a, q) == BScale(RDiv(R1, q), a)
\* a / 1e-12
BOverFloor(a) == IF a = <<>> THEN a ELSE <<R0>> \o a
RECURSIVE BMul(_, _)
BMul(a, b) ==
    IF a = <<>> THEN <<>>
    ELSE BAdd(BScale(a[1], b), BOverFloor(BMul(Tail(a), b)))

\* 2-vectors of rationals
VDot(u, v) == RAdd(RMul(u[1], v[1]), RMul(u[2], v[2]))

---------------------------------------------------------------------------
(* solveLinearSystem: Gaussian elimination with partial pivoting on copies *)
(* M of A and x of b, then back substitution.  Rows and columns are        *)
(* numbered from 1 here (from 0 in the code).                              *)

SwapEntries(s, i, j) == [s EXCEPT ![i] = s[j], ![j] = s[i]]

\* a pivot search that takes the last of equal magnitudes
RECURSIVE scanMaxLastOnTies(_, _, _, _, _)
scanMaxLastOnTies(M, k, i, maxRow, n) ==
    IF i > n THEN maxRow
    ELSE IF RLess(RAbs(M[i][k]), RAbs(M[maxRow][k]))
         THEN scanMaxLastOnTies(M, k, i + 1, maxRow, n)
         ELSE scanMaxLastOnTies(M, k, i + 1, i, n)

\* the pivot search: maxRow after scanning rows i..n of column k
RECURSIVE scanMax(_, _, _, _, _)
scanMax(M, k, i, maxRow, n) ==
    IF i > n THEN maxRow
    ELSE IF RLess(RAbs(M[maxRow][k]), RAbs(M[i][k]))
         THEN scanMax(M, k, i + 1, i, n)
         ELSE scanMax(M, k, i + 1, maxRow, n)

\* One elimination step k.  When the pivot is 0 the code divides by 1e-12;
\* the pivot is the largest magnitude of its column from row k down, so
\* every M[i][k] it divides is then 0 and the factor is 0 / 1e-12 = 0.
\* an elimination that leaves the right-hand side alone
eliminateRowKeepsRhs(rowI, xI, rowK, xK, k, factor) ==
    [row |-> [j \in 1..Len(rowI) |->
                IF j < k THEN rowI[j] ELSE RSub(rowI[j], RMul(factor, rowK[j]))],
     x   |-> xI]

eliminateRow(rowI, xI, rowK, xK, k, factor) ==
    [row |-> [j \in 1..Len(rowI) |->
                IF j < k THEN rowI[j] ELSE RSub(rowI[j], RMul(factor, rowK[j]))],
     x   |-> RSub(xI, RMul(factor, xK))]

eliminateBelow(M1, x1, k, st, maxRow) ==
    LET n      == Len(x1)
        isZero == M1[k][k] = R0
        factor(i) == IF isZero THEN R0 ELSE RDiv(M1[i][k], M1[k][k])
        r(i) == eliminateRow(M1[i], x1[i], M1[k], x1[k], k, factor(i))
    IN  [M |-> [i \in 1..n |-> IF i <= k THEN M1[i] ELSE r(i).row],
         x |-> [i \in 1..n |-> IF i <= k THEN x1[i] ELSE r(i).x],
         pivotRows |-> Append(st.pivotRows, maxRow),
         floored   |-> IF isZero THEN st.floored \cup {k} ELSE st.floored]

swapAndEliminate(st, k, maxRow) ==
    eliminateBelow(SwapEntries(st.M, k, maxRow), SwapEntries(st.x, k, maxRow),
                   k, st, maxRow)

elimStep(st, k) == swapAndEliminate(st, k, scanMax(st.M, k, k + 1, k, Len(st.x)))

RECURSIVE elimLoop(_, _)
elimLoop(st, k) ==
    IF k > Len(st.x) THEN st ELSE elimLoop(elimStep(st, k), k + 1)

\* sum = x[i] - SUM_{j > i} M[i][j] * solution[j]
RECURSIVE rowSum(_, _, _, _, _)
rowSum(M, sol, i, j, acc) ==
    IF j > Len(sol) THEN acc
    ELSE rowSum(M, sol, i, j + 1, BSub(acc, BScale(M[i][j], sol[j])))

RECURSIVE backSubstitute(_, _, _, _)
backSubstitute(M, x, i, sol) ==
    IF i < 1 THEN sol
    ELSE LET sum == rowSum(M, sol, i, i + 1, BRat(x[i]))
             v   == IF M[i][i] = R0 THEN BOverFloor(sum)
                    ELSE BDivRat(sum, M[i][i])
         IN  backSubstitute(M, x, i - 1, [sol EXCEPT ![i] = v])

\* the whole call, with what it did on the way
substituteBack(e) ==
    [solution  |-> backSubstitute(e.M, e.x, Len(e.x), [i \in 1..Len(e.x) |-> <<>>]),
     pivotRows |-> e.pivotRows,
     floored   |-> e.floored,
     M         |-> e.M,
     x         |-> e.x]

linearSolve(A, b) ==
    substituteBack(elimLoop([M |-> A, x |-> b, pivotRows |-> <<>>, floored |-> {}], 1))

solveLinearSystem(A, b) == linearSolve(A, b).solution

---------------------------------------------------------------------------
(* panelInfluence and the assembly of solvePanelMethod.                    *)
(*                                                                         *)
(* panelInfluence computes coeff * logTerm and coeff * atanTerm from       *)
(* Math.log and Math.atan2 of the evaluation point in the panel's frame.   *)
(* These two numbers are inputs of the model (inp.off, inp.selfN): for a   *)
(* panel at its own control point the log term is 0 and the angle term is  *)
(* +pi or -pi (atan2 of a zero whose sign is a rounding residue), i.e.     *)
(* sourceNormal = +1/2 or -1/2; for another panel's control point the two  *)
(* terms are drawn from a small set, one draw for each pair (class of the  *)
(* influencing panel, index offset of the control point).                  *)
(* The rotation into global coordinates and everything solvePanelMethod    *)
(* does with the result is computed as in the code.                        *)

\* integer square root of a perfect square
ISqrt(q) == CHOOSE r \in 0..q : r * r = q

\* the panels of the solver runs have integral length, so that the unit
\* tangent and normal are rational
IntegralLengths(ps) ==
    \A k \in 1..Len(ps) : \E r \in 0..ps[k].length2 : r * r = ps[k].length2

unitTangent(p) ==
    LET l == ISqrt(p.length2) IN <<RNorm(p.tangent[1], l), RNorm(p.tangent[2], l)>>
unitNormal(p) ==
    LET l == ISqrt(p.length2) IN <<RNorm(p.normal[1], l), RNorm(p.normal[2], l)>>

\* Panels that draw their terms together.  A panel set of even size models
\* a contour with a half-turn symmetry (a rectangle, a doubled segment):
\* panels j and j + 2 see the other panels alike.  Otherwise every panel
\* draws its own terms.
TermClasses(n) == IF n % 2 = 0 THEN 2 ELSE n
termClass(j, n) == ((j - 1) % TermClasses(n)) + 1

\* coeff * logTerm and coeff * atanTerm of panel j at the control point of
\* panel i (1-based), of a set of n panels
influenceTerms(in, j, i, n) ==
    IF i = j THEN [sT |-> R0, sN |-> in.selfN]
    ELSE in.off[<<termClass(j, n), (i - j) % n>>]

\* a vortex whose normal component has the sign of the log term
rotateTermsSameSign(cosT, sinT, terms) ==
    LET sourceTangential == terms.sT
        sourceNormal     == terms.sN
        vortexTangential == terms.sN
        vortexNormal     == terms.sT
    IN  [sourceVelocity |->
            <<RSub(RMul(sourceTangential, cosT), RMul(sourceNormal, sinT)),
              RAdd(RMul(sourceTangential, sinT), RMul(sourceNormal, cosT))>>,
         vortexVelocity |->
            <<RSub(RMul(vortexTangential, cosT), RMul(vortexNormal, sinT)),
              RAdd(RMul(vortexTangential, sinT), RMul(vortexNormal, cosT))>>]

\* lines 99-114: local components rotated by the panel's direction
rotateTerms(cosT, sinT, terms) ==
    LET sourceTangential == terms.sT
        sourceNormal     == terms.sN
        vortexTangential == terms.sN
        vortexNormal     == RNeg(terms.sT)
    IN  [sourceVelocity |->
            <<RSub(RMul(sourceTangential, cosT), RMul(sourceNormal, sinT)),
              RAdd(RMul(sourceTangential, sinT), RMul(sourceNormal, cosT))>>,
         vortexVelocity |->
            <<RSub(RMul(vortexTangential, cosT), RMul(vortexNormal, sinT)),
              RAdd(RMul(vortexTangential, sinT), RMul(vortexNormal, cosT))>>]

panelInfluence(panel, terms) ==
    rotateTerms(unitTangent(panel)[1], unitTangent(panel)[2], terms)

\* panelInfluence(panels[j], panels[i].control)
influenceAt(in, ps, j, i) ==
    panelInfluence(ps[j], influenceTerms(in, j, i, Len(ps)))

\* a freestream vector that forgets the speed
vInfVecOfUnitSpeed(in) == <<in.cosA, in.sinA>>
\* lines 195-197: (cos alpha, sin alpha) multiplied by Vinf
vInfVec(in) == <<RMul(RInt(in.Vinf), in.cosA), RMul(RInt(in.Vinf), in.sinA)>>

RECURSIVE RSum(_, _)
RSum(s, j) == IF j > Len(s) THEN R0 ELSE RAdd(s[j], RSum(s, j + 1))

\* rows 1..n: flow tangency at each control point
tangencyRow(in, ps, i) ==
    LET n    == Len(ps)
        nHat == unitNormal(ps[i])
        w(j) == VDot(influenceAt(in, ps, j, i).vortexVelocity, nHat)
    IN  [j \in 1..(n + 1) |->
            IF j <= n THEN VDot(influenceAt(in, ps, j, i).sourceVelocity, nHat)
            ELSE RSum([m \in 1..n |-> w(m)], 1)]

\* a last row that adds the two panels' tangential velocities
kuttaRowOfSums(in, ps, t) ==
    LET n  == Len(ps)
        u  == t.upperIndex + 1
        l  == t.lowerIndex + 1
        tU == unitTangent(ps[u])
        tL == unitTangent(ps[l])
        wU(j) == VDot(influenceAt(in, ps, j, u).vortexVelocity, tU)
        wL(j) == VDot(influenceAt(in, ps, j, l).vortexVelocity, tL)
    IN  [j \in 1..(n + 1) |->
            IF j <= n
            THEN RAdd(VDot(influenceAt(in, ps, j, u).sourceVelocity, tU),
                      VDot(influenceAt(in, ps, j, l).sourceVelocity, tL))
            ELSE RAdd(RSum([m \in 1..n |-> wU(m)], 1), RSum([m \in 1..n |-> wL(m)], 1))]

\* row n+1: the Kutta condition between the two trailing panels
kuttaRow(in, ps, t) ==
    LET n  == Len(ps)
        u  == t.upperIndex + 1
        l  == t.lowerIndex + 1
        tU == unitTangent(ps[u])
        tL == unitTangent(ps[l])
        wU(j) == VDot(influenceAt(in, ps, j, u).vortexVelocity, tU)
        wL(j) == VDot(influenceAt(in, ps, j, l).vortexVelocity, tL)
    IN  [j \in 1..(n + 1) |->
            IF j <= n
            THEN RSub(VDot(influenceAt(in, ps, j, u).sourceVelocity, tU),
                      VDot(influenceAt(in, ps, j, l).sourceVelocity, tL))
            ELSE RSub(RSum([m \in 1..n |-> wU(m)], 1), RSum([m \in 1..n |-> wL(m)], 1))]

assembleSystem(in, ps, t) ==
    LET n == Len(ps)
        v == vInfVec(in)
    IN  [A |-> [i \in 1..(n + 1) |->
                  IF i <= n THEN tangencyRow(in, ps, i) ELSE kuttaRow(in, ps, t)],
         b |-> [i \in 1..(n + 1) |->
                  IF i <= n THEN RNeg(VDot(v, unitNormal(ps[i])))
                  ELSE RNeg(RSub(VDot(v, unitTangent(ps[t.upperIndex + 1])),
                                 VDot(v, unitTangent(ps[t.lowerIndex + 1]))))]]

RECURSIVE BSum(_, _)
BSum(s, j) == IF j > Len(s) THEN <<>> ELSE BAdd(s[j], BSum(s, j + 1))

\* lines 246-257: the tangential velocity recovered at panel i
tangentialVelocity(in, ps, sigma, gamma, i) ==
    LET n    == Len(ps)
        tHat == unitTangent(ps[i])
        s(j) == BScale(VDot(influenceAt(in, ps, j, i).sourceVelocity, tHat), sigma[j])
        w(j) == VDot(influenceAt(in, ps, j, i).vortexVelocity, tHat)
    IN  BAdd(BAdd(BRat(VDot(vInfVec(in), tHat)), BSum([m \in 1..n |-> s(m)], 1)),
             BScale(RSum([m \in 1..n |-> w(m)], 1), gamma))

\* line 258: Cp = 1 - vt^2 / vInfMag^2 with vInfMag = max(1e-6, Vinf)
pressureCoefficient(in, vtI) ==
    IF in.Vinf >= 1
    THEN BSub(BRat(R1), BDivRat(BMul(vtI, vtI), RInt(in.Vinf * in.Vinf)))
    ELSE BSub(BRat(R1), BOverFloor(BMul(vtI, vtI)))

recoverSolution(in, ps, solution) ==
    LET n     == Len(ps)
        sigma == SubSeq(solution, 1, n)
        gamma == solution[n + 1]
        vt    == [i \in 1..n |-> tangentialVelocity(in, ps, sigma, gamma, i)]
    IN  [panels |-> ps, sigma |-> sigma, gamma |-> gamma, vt |-> vt,
         cp |-> [i \in 1..n |-> pressureCoefficient(in, vt[i])],
         returned |-> TRUE]

\* line 189: the solution returned when there are no panels
EmptySolution ==
    [panels |-> <<>>, sigma |-> <<>>, gamma |-> <<>>, vt |-> <<>>, cp |-> <<>>,
     returned |-> TRUE]

---------------------------------------------------------------------------
(* velocityFromPanels (lines 266-287).  The point is given by the terms     *)
(* coeff*logTerm and coeff*atanTerm each panel has at it.                   *)

\* lines 278-284: the body of the forEach, with the panel's influence inf
addPanelVelocity(acc, inf, sigmaJ, gamma) ==
    <<BAdd(BAdd(acc[1], BScale(inf.sourceVelocity[1], sigmaJ)),
           BScale(inf.vortexVelocity[1], gamma)),
      BAdd(BAdd(acc[2], BScale(inf.sourceVelocity[2], sigmaJ)),
           BScale(inf.vortexVelocity[2], gamma))>>

RECURSIVE velocityLoop(_, _, _, _)
velocityLoop(solution, terms, j, acc) ==
    IF j > Len(solution.panels) THEN acc
    ELSE velocityLoop(solution, terms, j + 1,
                      addPanelVelocity(acc, panelInfluence(solution.panels[j], terms[j]),
                                       solution.sigma[j], solution.gamma))

\* a loop that starts from rest instead of the freestream
velocityFromPanelsNoFreestream(solution, terms, in) ==
    velocityLoop(solution, terms, 1, <<BRat(R0), BRat(R0)>>)

velocityFromPanels(solution, terms, in) ==
    velocityLoop(solution, terms, 1, <<BRat(vInfVec(in)[1]), BRat(vInfVec(in)[2])>>)

\* lines 290-298
velocityAtPoint(solution, terms, in) == velocityFromPanels(solution, terms, in)

---------------------------------------------------------------------------
(* Specification SolveSpec: one call of solvePanelMethod, in the order of  *)
(* its code, on contours with axis-parallel sides.                         *)

\* contours of the solver runs: too short, all points equal, a doubled
\* segment, an open chain ending within the tolerance of its start, and
\* rectangles (clockwise and counter-clockwise, one with a side on y = 0,
\* one symmetric about y = 0)
SolveContours ==
    { <<>>,
      <<<<0, 0>>, <<2, 0>>>>,
      <<<<0, 0>>, <<0, 0>>, <<0, 0>>>>,
      <<<<-2, 0>>, <<2, 0>>, <<-2, 0>>>>,
      <<<<-2, 0>>, <<-2, 2>>, <<0, 2>>, <<0, 0>>>>,
      <<<<-2, 0>>, <<-2, 2>>, <<2, 2>>, <<2, 0>>>>,
      <<<<-2, -2>>, <<2, -2>>, <<2, 0>>, <<-2, 0>>>>,
      <<<<-2, -2>>, <<-2, 2>>, <<2, 2>>, <<2, -2>>>> }

\* freestream speeds and directions (cos alpha, sin alpha) of the runs
SolveSpeeds == {0, 2}
SolveAngles == { <<<<1, 1>>, <<0, 1>>>>, <<<<4, 5>>, <<3, 5>>>>, <<<<4, 5>>, <<-3, 5>>>> }

\* values of coeff*logTerm and coeff*atanTerm away from the panel itself
SelfAngleTerms == { <<1, 2>>, <<-1, 2>> }
OffTerms == { [sT |-> <<-1, 4>>, sN |-> <<1, 4>>], [sT |-> <<1, 4>>, sN |-> <<0, 1>>] }

\* the pairs (class, offset) a set of n panels draws terms for
TermPairs(n) == (1..TermClasses(n)) \X (1..(n - 1))

SolveInit ==
    /\ pc = "input"
    /\ contour \in SolveContours
    /\ closed = <<>>
    /\ points = <<>>
    /\ panels = <<>>
    /\ te = NoTE
    /\ \E v \in SolveSpeeds, a \in SolveAngles, sn \in SelfAngleTerms :
       \E o \in [TermPairs(Len(buildPanels(contour))) -> OffTerms] :
           inp = [Vinf |-> v, cosA |-> a[1], sinA |-> a[2], selfN |-> sn, off |-> o]
    /\ sys = NoSystem
    /\ lin = NoSolve
    /\ out = NoOutput
    /\ stream = NoStream
    /\ vel = NoVelocity
    /\ heap = NoHeap
    /\ frame = NoFrame
    /\ scene = NoScene
    /\ foil = NoFoil
    /\ lift = NoLift

\* line 186
SolveBuildPanels ==
    /\ pc = "input"
    /\ pc' = "built"
    /\ panels' = buildPanels(contour)
    /\ closed' = IF Len(contour) < 3 THEN <<>> ELSE closeLoop(contour)
    /\ points' = IF Len(contour) < 3 THEN <<>> ELSE orientLoop(closeLoop(contour))
    /\ UNCHANGED <<evalVars, stream, contour, te, solveVars>>

\* lines 188-190
SolveReturnEmpty ==
    /\ pc = "built"
    /\ Len(panels) = 0
    /\ pc' = "returned"
    /\ out' = EmptySolution
    /\ UNCHANGED <<evalVars, stream, geomVars, inp, sys, lin>>

\* lines 192-236
SolveAssemble ==
    /\ pc = "built"
    /\ Len(panels) # 0
    /\ pc' = "assembled"
    /\ te' = findTrailingEdgePanels(panels)
    /\ sys' = assembleSystem(inp, panels, findTrailingEdgePanels(panels))
    /\ UNCHANGED <<evalVars, stream, contour, closed, points, panels, inp, lin, out>>

\* line 238
SolveLinear ==
    /\ pc = "assembled"
    /\ pc' = "solved"
    /\ lin' = linearSolve(sys.A, sys.b)
    /\ UNCHANGED <<evalVars, stream, geomVars, inp, sys, out>>

\* lines 239-262
SolveRecover ==
    /\ pc = "solved"
    /\ pc' = "returned"
    /\ out' = recoverSolution(inp, panels, lin.solution)
    /\ UNCHANGED <<evalVars, stream, geomVars, inp, sys, lin>>

\* terms of the panels at the points of the runs: one draw for the panels
\* of odd index, one for those of even index
PointTerms(n) == { [j \in 1..n |-> IF j % 2 = 1 THEN a ELSE b] : a, b \in OffTerms }

\* a call of velocityAtPoint with the returned solution
SolveVelocity ==
    /\ pc = "returned"
    /\ ~vel.evaluated
    /\ \E t \in PointTerms(Len(out.panels)) :
           vel' = [evaluated |-> TRUE, terms |-> t, v |-> velocityAtPoint(out, t, inp)]
    /\ UNCHANGED <<pc, stream, geomVars, solveVars, foil, lift, heap, frame, scene>>

SolveNext ==
    \/ SolveBuildPanels
    \/ SolveReturnEmpty
    \/ SolveAssemble
    \/ SolveLinear
    \/ SolveRecover
    \/ SolveVelocity

SolveSpec == SolveInit /\ [][SolveNext]_vars

---------------------------------------------------------------------------
(* Geometry used to state the panel-assembly properties *)

\* magnification used to step off a panel "a little": the test point of a
\* panel is OffsetScale * control + normal, measured against the polygon
\* magnified by OffsetScale
OffsetScale == 64

Cross(o, a, b) == (a[1] - o[1]) * (b[2] - o[2]) - (a[2] - o[2]) * (b[1] - o[1])

Sign(v) == IF v > 0 THEN 1 ELSE IF v < 0 THEN -1 ELSE 0

\* q lies on the closed segment a-b
OnSegment(a, b, q) ==
    /\ Cross(a, b, q) = 0
    /\ Min2(a[1], b[1]) <= q[1] /\ q[1] <= Max2(a[1], b[1])
    /\ Min2(a[2], b[2]) <= q[2] /\ q[2] <= Max2(a[2], b[2])

\* the closed segments a-b and c-d have a common point
SegmentsMeet(a, b, c, d) ==
    \/ /\ Sign(Cross(a, b, c)) * Sign(Cross(a, b, d)) < 0
       /\ Sign(Cross(c, d, a)) * Sign(Cross(c, d, b)) < 0
    \/ OnSegment(a, b, c) \/ OnSegment(a, b, d)
    \/ OnSegment(c, d, a) \/ OnSegment(c, d, b)

\* the vertices of a loop given as an exactly closed list (first = last)
LoopVertices(cl) == SubSeq(cl, 1, Len(cl) - 1)

\* vs (at least 3 vertices, cyclic) is a simple polygon: no repeated vertex,
\* neighbouring edges share only their common vertex, other edges are disjoint
IsSimplePolygon(vs) ==
    LET n       == Len(vs)
        nxt(i)  == (i % n) + 1
    IN  /\ n >= 3
        /\ \A i, j \in 1..n : i # j => vs[i] # vs[j]
        /\ \A i \in 1..n : ~OnSegment(vs[i], vs[nxt(i)], vs[nxt(nxt(i))])
        /\ \A i \in 1..n : ~OnSegment(vs[nxt(i)], vs[nxt(nxt(i))], vs[i])
        /\ \A i, j \in 1..n :
              (i # j /\ nxt(i) # j /\ nxt(j) # i)
                 => ~SegmentsMeet(vs[i], vs[nxt(i)], vs[j], vs[nxt(j)])

\* the input contour describes a simple closed polygon: it ends on its first
\* point exactly, or is auto-closed, and its vertices form a simple polygon
SimpleClosedInput ==
    /\ Len(contour) >= 3
    /\ \/ contour[1] = contour[Len(contour)]
       \/ Dist2(contour[1], contour[Len(contour)]) >= CloseTolSq
    /\ Len(closed) >= 4
    /\ IsSimplePolygon(LoopVertices(closed))

\* crossing-number test: q lies strictly inside the polygon vs magnified by
\* s (q is never on an edge where this is used)
Scaled(v, s) == <<s * v[1], s * v[2]>>

CrossesRay(a, b, q) ==
    /\ (a[2] > q[2]) # (b[2] > q[2])
    /\ IF b[2] > a[2]
       THEN (q[1] - a[1]) * (b[2] - a[2]) < (b[1] - a[1]) * (q[2] - a[2])
       ELSE (q[1] - a[1]) * (b[2] - a[2]) > (b[1] - a[1]) * (q[2] - a[2])

InsidePolygon(vs, s, q) ==
    LET n == Len(vs)
        hits == { i \in 1..n :
                    CrossesRay(Scaled(vs[i], s), Scaled(vs[(i % n) + 1], s), q) }
    IN  Cardinality(hits) % 2 = 1

\* the point reached from the panel's control point by a small step along
\* its normal, in magnified coordinates
OffControl(p) ==
    <<OffsetScale * p.control[1] + p.normal[1],
      OffsetScale * p.control[2] + p.normal[2]>>

Built == pc \in {"built", "done", "empty"}

PanelStarts(ps) == [k \in 1..Len(ps) |-> ps[k].start]

\* number of consecutive pairs of equal points in a list
ZeroPairs(pts) == Cardinality({ i \in 1..(Len(pts) - 1) : pts[i] = pts[i + 1] })

\* the list without the points that equal their successor
RECURSIVE DropRepeats(_)
DropRepeats(pts) ==
    IF Len(pts) <= 1 THEN <<>>
    ELSE IF pts[1] = pts[2] THEN DropRepeats(Tail(pts))
         ELSE <<pts[1]>> \o DropRepeats(Tail(pts))

---------------------------------------------------------------------------
(* Properties of panel assembly (specification Spec) *)

\* C5: for every panel built from a simple closed contour, the normal
\* (tangent.y, -tangent.x) points away from the body: a small step from the
\* control point along the normal does not end inside the polygon.
C5_NormalPointsOutward ==
    (Built /\ SimpleClosedInput) =>
        \A k \in 1..Len(panels) :
            ~InsidePolygon(LoopVertices(closed), OffsetScale, OffControl(panels[k]))

\* C6: for a loop of at least 3 points the emitted panel start points are
\* traversed clockwise (shoelace area <= 0); a counter-clockwise loop is
\* emitted in reversed point order, a clockwise one in its original order.
C6_ClockwiseEmission ==
    (Built /\ Len(contour) >= 3) =>
        /\ polygonArea(PanelStarts(panels)) <= 0
        /\ PanelStarts(panels) =
              DropRepeats(IF polygonArea(closed) > 0 THEN Reverse(closed) ELSE closed)

\* C6 (amended): the loop walked by the panel loop always has shoelace area
\* <= 0 and is the closed loop reversed exactly when that loop's area is
\* positive; the emitted start points are traversed clockwise whenever the
\* input ends on its first point exactly or is auto-closed.
ExactlyClosedOrAutoClosed ==
    \/ contour[1] = contour[Len(contour)]
    \/ Dist2(contour[1], contour[Len(contour)]) >= CloseTolSq

C6_ClockwiseEmissionClosedLoop ==
    (Built /\ Len(contour) >= 3) =>
        /\ polygonArea(points) <= 0
        /\ points = (IF polygonArea(closed) > 0 THEN Reverse(closed) ELSE closed)
        /\ PanelStarts(panels) = DropRepeats(points)
        /\ ExactlyClosedOrAutoClosed => polygonArea(PanelStarts(panels)) <= 0

C6_Witness ==
    /\ Built /\ Len(contour) >= 3
    /\ polygonArea(closed) > 0
    /\ Len(panels) >= 3
    /\ polygonArea(PanelStarts(panels)) < 0

\* C7: every emitted panel has length > 0, and the number of panels is the
\* point count of the closed loop minus one, minus the number of dropped
\* zero-length consecutive pairs.
C7_PanelCount ==
    (Built /\ Len(contour) >= 3) =>
        /\ \A k \in 1..Len(panels) : panels[k].length2 > 0
        /\ Len(panels) = Len(closed) - 1 - ZeroPairs(closed)

C7_Witness ==
    /\ Built /\ Len(contour) >= 3
    /\ ZeroPairs(closed) >= 1
    /\ Len(panels) >= 2
    /\ Len(closed) = Len(contour) + 1

\* C8 (as stated): first and last within 1e-6: no point is added; farther
\* apart than 1e-6: a copy of the first point is appended, so a closing
\* panel from the last input point back to the first is produced.
C8_ClosingPanelLastToFirst ==
    (Built /\ Len(contour) >= 3) =>
        LET first == contour[1]
            last  == contour[Len(contour)]
        IN  /\ Dist2(first, last) < CloseTolSq => closed = contour
            /\ Dist2(first, last) > CloseTolSq =>
                  /\ closed = Append(contour, first)
                  /\ \E k \in 1..Len(panels) :
                        panels[k].start = last /\ panels[k].end = first

\* C8 (amended): as above, but the closing panel runs from the last input
\* point to the first for a loop kept in its order and from the first to the
\* last when the loop is reversed.
C8_ClosingPanel ==
    (Built /\ Len(contour) >= 3) =>
        LET first == contour[1]
            last  == contour[Len(contour)]
        IN  /\ Dist2(first, last) < CloseTolSq => closed = contour
            /\ Dist2(first, last) > CloseTolSq =>
                  /\ closed = Append(contour, first)
                  /\ \E k \in 1..Len(panels) :
                        IF polygonArea(closed) > 0
                        THEN panels[k].start = first /\ panels[k].end = last
                        ELSE panels[k].start = last /\ panels[k].end = first

C8_Witness ==
    /\ Built /\ Len(contour) >= 3
    /\ Dist2(contour[1], contour[Len(contour)]) > CloseTolSq
    /\ polygonArea(closed) > 0
    /\ panels[1].start = contour[1]
    /\ panels[1].end = contour[Len(contour)]

\* C9: the upper trailing panel has maximal control-point x among the panels
\* with control-point y >= 0, the lower one among those with y <= 0, each the
\* first such panel in panel order on ties, whenever such panels exist.
UpperSet == { k \in 1..Len(panels) : panels[k].control[2] >= 0 }
LowerSet == { k \in 1..Len(panels) : panels[k].control[2] <= 0 }

FirstMaxX(S, k) ==
    /\ k \in S
    /\ \A j \in S : panels[j].control[1] <= panels[k].control[1]
    /\ \A j \in S : panels[j].control[1] = panels[k].control[1] => k <= j

C9_TrailingPanels ==
    pc = "done" =>
        /\ UpperSet # {} => FirstMaxX(UpperSet, te.upperIndex + 1)
        /\ LowerSet # {} => FirstMaxX(LowerSet, te.lowerIndex + 1)

C9_Witness ==
    /\ pc = "done"
    /\ \E j, k \in UpperSet :
          j < k /\ panels[j].control[1] = panels[k].control[1]
                /\ FirstMaxX(UpperSet, j)
    /\ LowerSet # {}
    /\ te.upperIndex > 0
    /\ te.lowerIndex # te.upperIndex


---------------------------------------------------------------------------
(* Properties of solvePanelMethod (specification SolveSpec) *)

\* the call returned a solution of a system it assembled and solved
Returned == pc = "returned" /\ Len(panels) > 0

\* The system was solved without a stand-in pivot, or its only stand-in
\* pivot is the last one and the Kutta row is empty because both trailing
\* panels are the same panel.
RegularSystem ==
    \/ lin.floored = {}
    \/ lin.floored = {Len(panels) + 1} /\ te.upperIndex = te.lowerIndex

\* freestream . normal_i + sum_j sigma[j] (source velocity of j at control_i)
\* . normal_i + gamma sum_j (vortex velocity of j at control_i) . normal_i
tangencyResidual(i) ==
    LET n    == Len(panels)
        nHat == unitNormal(panels[i])
        s(j) == BScale(VDot(influenceAt(inp, panels, j, i).sourceVelocity, nHat),
                       out.sigma[j])
        w(j) == VDot(influenceAt(inp, panels, j, i).vortexVelocity, nHat)
    IN  BAdd(BAdd(BRat(VDot(vInfVec(inp), nHat)), BSum([m \in 1..n |-> s(m)], 1)),
             BScale(RSum([m \in 1..n |-> w(m)], 1), out.gamma))

\* C1: after solvePanelMethod returns for a contour whose system is regular,
\* the flow-tangency residual at every panel control point is zero: the
\* freestream's normal component plus the normal velocity induced by the
\* returned sigma and gamma vanishes, and rows 1..n of the assembled system
\* are these equations.
C1_TangencyResidualZero ==
    (Returned /\ RegularSystem) =>
        \A i \in 1..Len(panels) :
            /\ tangencyResidual(i) = <<>>
            /\ sys.A[i] = tangencyRow(inp, panels, i)
            /\ sys.b[i] = RNeg(VDot(vInfVec(inp), unitNormal(panels[i])))

C1_Witness ==
    /\ Returned
    /\ lin.floored = {}
    /\ Len(panels) = 4
    /\ inp.Vinf > 0
    /\ out.gamma # <<>>
    /\ \A i \in 1..Len(panels) : out.sigma[i] # <<>>
    /\ \E k \in 1..Len(lin.pivotRows) : lin.pivotRows[k] # k

\* C2: after solvePanelMethod returns for a contour whose system is regular,
\* the recovered tangential velocities at the two panels chosen by
\* findTrailingEdgePanels are equal, hence of equal magnitude.
C2_KuttaCondition ==
    (Returned /\ RegularSystem) =>
        /\ te = findTrailingEdgePanels(panels)
        /\ out.vt[te.upperIndex + 1] = out.vt[te.lowerIndex + 1]

C2_Witness ==
    /\ Returned
    /\ lin.floored = {}
    /\ te.upperIndex # te.lowerIndex
    /\ out.gamma # <<>>
    /\ out.vt[te.upperIndex + 1] # <<>>
    /\ out.vt[te.upperIndex + 1] = out.vt[te.lowerIndex + 1]

\* C4: for a contour of fewer than 3 points, and whenever panel assembly
\* yields no panel, solvePanelMethod returns the empty solution (panels,
\* sigma, vt and cp empty, gamma zero) and neither looks for trailing
\* panels nor assembles or solves a system.
C4_EmptySolution ==
    /\ (pc # "input" /\ Len(contour) < 3) => Len(panels) = 0
    /\ (pc # "input" /\ Len(panels) = 0) =>
          /\ pc \in {"built", "returned"}
          /\ te = NoTE /\ sys = NoSystem /\ lin = NoSolve
    /\ (pc = "built" /\ Len(panels) = 0) => ENABLED SolveReturnEmpty
    /\ (pc = "returned" /\ Len(panels) = 0) =>
          /\ out = EmptySolution
          /\ out.panels = <<>> /\ out.sigma = <<>> /\ out.vt = <<>>
          /\ out.cp = <<>> /\ out.gamma = <<>>

C4_Witness ==
    /\ pc = "returned"
    /\ Len(contour) \in 1..2
    /\ out = EmptySolution
    /\ sys = NoSystem /\ lin = NoSolve


---------------------------------------------------------------------------
(* integrateStreamline of the two scenes: fourth-order Runge-Kutta marching *)
(* along the direction of the velocity field.  Lengths are integers in      *)
(* units of chord / 400, so that step = 0.03 chord is 12 units, the bounds  *)
(* 1.6 chord and 0.8 chord are 640 and 320 units, and every stage of a step *)
(* lands on an integer point.  A velocity is a direction along an axis and  *)
(* a class of magnitude:                                                    *)
(*   "fast"  1e-3 <= |v|          "slow"  1e-5 <= |v| < 1e-3                *)
(*   "tiny"  |v| = 0.5e-5         "zero"  |v| = 0                           *)

maxSteps == 380

StreamChords == {400, 0, -400}
StreamSeeds == { <<-240, 0>>, <<-240, 36>>, <<0, 0>>, <<120, -60>> }
StreamFields == {"uniform", "climbing", "reversed", "circulating", "still",
                 "slow", "tiny", "stagnating"}

East == <<1, 0>>
North == <<0, 1>>
West == <<-1, 0>>
South == <<0, -1>>

\* the velocity-field functions passed as velocityAt
velocityAt(field, q) ==
    CASE field = "uniform"  -> [dir |-> East, mag |-> "fast"]
      [] field = "climbing" -> [dir |-> North, mag |-> "fast"]
      [] field = "reversed" -> [dir |-> West, mag |-> "fast"]
      [] field = "slow"     -> [dir |-> East, mag |-> "slow"]
      [] field = "tiny"     -> [dir |-> East, mag |-> "tiny"]
      [] field = "still"    -> [dir |-> <<0, 0>>, mag |-> "zero"]
      [] field = "stagnating" ->
            IF q[1] < 0 THEN [dir |-> East, mag |-> "fast"]
            ELSE [dir |-> <<0, 0>>, mag |-> "zero"]
      [] field = "circulating" ->
            IF q = <<0, 0>> THEN [dir |-> <<0, 0>>, mag |-> "zero"]
            ELSE IF Abs(q[1]) >= Abs(q[2])
                 THEN [dir |-> IF q[1] > 0 THEN North ELSE South, mag |-> "fast"]
                 ELSE [dir |-> IF q[2] > 0 THEN West ELSE East, mag |-> "fast"]

\* a stagnation test that never fires
belowStagnationSpeedNever(v) == FALSE
\* speed = Math.max(1e-5, v.length()); speed < 1e-3
belowStagnationSpeed(v) == v.mag # "fast"

\* v.clone().divideScalar(speed).multiplyScalar(step)
stepVector(v, step) ==
    LET len == CASE v.mag \in {"fast", "slow"} -> step
                 [] v.mag = "tiny" -> step \div 2
                 [] v.mag = "zero" -> 0
    IN  <<v.dir[1] * len, v.dir[2] * len>>

VAdd(a, b) == <<a[1] + b[1], a[2] + b[2]>>
VHalf(a) == <<a[1] \div 2, a[2] \div 2>>

\* one stage of an iteration: the step along the direction of the field at q
rkStage(field, q, step) == stepVector(velocityAt(field, q), step)

\* a mean that forgets to divide by the sum of the weights
weightedSum(k1, k2, k3, k4) ==
    <<k1[1] + 2 * k2[1] + 2 * k3[1] + k4[1],
      k1[2] + 2 * k2[2] + 2 * k3[2] + k4[2]>>
\* delta of one iteration of the loop: the weighted mean of the four stages
weightedMean(k1, k2, k3, k4) ==
    <<(k1[1] + 2 * k2[1] + 2 * k3[1] + k4[1]) \div 6,
      (k1[2] + 2 * k2[2] + 2 * k3[2] + k4[2]) \div 6>>

\* step = 0.03 * chord
stepLength(chord) == (3 * chord) \div 100

\* a domain test that forgets the upstream edge
outsideDomainNoUpstreamEdge(p, chord) ==
    \/ p[1] > (16 * chord) \div 10
    \/ Abs(p[2]) > (16 * chord) \div 10
\* p.x > 1.6 * chord || Math.abs(p.y) > bounds || p.x < -0.8 * chord
outsideDomain(p, chord) ==
    \/ p[1] > (16 * chord) \div 10
    \/ Abs(p[2]) > (16 * chord) \div 10
    \/ p[1] < -((8 * chord) \div 10)

\* a step that records nothing
pushNothing(pts, q) == pts
\* points.push(toVec3(p.x, p.y))
pushPoint(pts, q) == Append(pts, q)

\* the loop's condition
loopContinuesPastBudget(i) == i <= maxSteps
loopContinues(i) == i < maxSteps

StreamInit ==
    /\ pc = "march"
    /\ contour = <<>>
    /\ closed = <<>>
    /\ points = <<>>
    /\ panels = <<>>
    /\ te = NoTE
    /\ inp = NoInput
    /\ sys = NoSystem
    /\ lin = NoSolve
    /\ out = NoOutput
    /\ vel = NoVelocity
    /\ heap = NoHeap
    /\ frame = NoFrame
    /\ scene = NoScene
    /\ foil = NoFoil
    /\ lift = NoLift
    /\ \E s \in StreamSeeds, f \in StreamFields, c \in StreamChords, e \in BOOLEAN :
           stream = [seed |-> s, field |-> f, chord |-> c, stagnationExit |-> e,
                     p |-> s, i |-> 0, points |-> <<>>]

\* an iteration that ends at the stagnation test of the first scene
StreamStagnate ==
    /\ pc = "march"
    /\ loopContinues(stream.i)
    /\ stream.stagnationExit
    /\ belowStagnationSpeed(velocityAt(stream.field, stream.p))
    /\ pc' = "streamed"
    /\ UNCHANGED <<evalVars, stream, geomVars, solveVars>>

\* an iteration that moves the tracer, records it and tests the domain
StreamStep ==
    /\ pc = "march"
    /\ loopContinues(stream.i)
    /\ ~(stream.stagnationExit
         /\ belowStagnationSpeed(velocityAt(stream.field, stream.p)))
    /\ \E k1 \in {rkStage(stream.field, stream.p, stepLength(stream.chord))} :
       \E k2 \in {rkStage(stream.field, VAdd(stream.p, VHalf(k1)),
                          stepLength(stream.chord))} :
       \E k3 \in {rkStage(stream.field, VAdd(stream.p, VHalf(k2)),
                          stepLength(stream.chord))} :
       \E k4 \in {rkStage(stream.field, VAdd(stream.p, k3),
                          stepLength(stream.chord))} :
       \E q \in {VAdd(stream.p, weightedMean(k1, k2, k3, k4))} :
           /\ stream' = [stream EXCEPT !.p = q, !.i = @ + 1,
                                       !.points = pushPoint(@, q)]
           /\ pc' = IF outsideDomain(q, stream.chord) THEN "streamed" ELSE "march"
    /\ UNCHANGED <<evalVars, geomVars, solveVars>>

\* the loop's condition fails: the budget is spent
StreamBudget ==
    /\ pc = "march"
    /\ ~loopContinues(stream.i)
    /\ pc' = "streamed"
    /\ UNCHANGED <<evalVars, stream, geomVars, solveVars>>

StreamNext ==
    \/ StreamStagnate
    \/ StreamStep
    \/ StreamBudget

StreamSpec == StreamInit /\ [][StreamNext]_vars /\ WF_vars(StreamNext)

\* C10: for every seed, velocity field and chord, integrateStreamline of
\* either scene terminates, and returns at most 380 points after at most
\* 380 iterations of its loop.
C10_StepBudget ==
    /\ [](/\ Len(stream.points) <= maxSteps
          /\ stream.i <= maxSteps
          /\ Len(stream.points) = stream.i)
    /\ <>(pc = "streamed")

\* the budget ends the call of a tracer that never leaves the domain
C10_Witness ==
    /\ pc = "streamed"
    /\ Len(stream.points) = maxSteps
    /\ stream.stagnationExit
    /\ stream.field = "circulating"
    /\ \A k \in 1..Len(stream.points) : ~outsideDomain(stream.points[k], stream.chord)

\* the domain of the tracer: -0.8 chord <= x <= 1.6 chord, |y| <= 1.6 chord
\* (tenths of the chord are whole units for the chords of StreamChords)
InDomain(q, chord) ==
    /\ 10 * q[1] <= 16 * chord
    /\ 10 * q[1] >= -8 * chord
    /\ 10 * Abs(q[2]) <= 16 * chord

\* C11: integrateStreamline stops at the first step after which the tracer
\* is outside the domain: every returned point but the last lies inside
\* the domain, and once the last recorded point is outside the call has
\* ended with that point as the last of the sequence.
C11_DomainExit ==
    /\ \A k \in 1..(Len(stream.points) - 1) :
           InDomain(stream.points[k], stream.chord)
    /\ (Len(stream.points) > 0
        /\ ~InDomain(stream.points[Len(stream.points)], stream.chord))
          => /\ pc = "streamed"
             /\ stream.p = stream.points[Len(stream.points)]

\* a tracer that left through the upstream edge after several steps
C11_Witness ==
    /\ pc = "streamed"
    /\ Len(stream.points) \in 2..(maxSteps - 1)
    /\ stream.points[Len(stream.points)][1] * 10 < -8 * stream.chord
    /\ \A k \in 1..(Len(stream.points) - 1) :
           InDomain(stream.points[k], stream.chord)

\* the speed of the run's field at q, floored at 1e-5, is below 1e-3
SpeedBelowThreshold(q) ==
    velocityAt(stream.field, q).mag \in {"slow", "tiny", "zero"}

\* the position an iteration started from: the seed, then the recorded points
StepOrigin(k) == IF k = 0 THEN stream.seed ELSE stream.points[k]

\* the call ended neither on its budget nor on a domain exit
EndedEarlyInside ==
    /\ pc = "streamed"
    /\ stream.i < maxSteps
    /\ Len(stream.points) > 0 => InDomain(stream.points[Len(stream.points)], stream.chord)

\* C12: in the variant with the stagnation exit, marching ends before the
\* budget is spent as soon as the floored speed at the tracer's position is
\* below 1e-3, and that iteration adds no point; in the other variant no
\* such test exists and a call ends only on its budget or on a domain exit.
C12_StagnationExit ==
    /\ Len(stream.points) = stream.i
    /\ stream.stagnationExit =>
          /\ \A k \in 0..(Len(stream.points) - 1) : ~SpeedBelowThreshold(StepOrigin(k))
          /\ (pc = "march" /\ stream.i < maxSteps /\ SpeedBelowThreshold(stream.p))
                => (ENABLED StreamStagnate /\ ~ENABLED StreamStep)
          /\ EndedEarlyInside => SpeedBelowThreshold(stream.p)
    /\ ~stream.stagnationExit =>
          /\ ~ENABLED StreamStagnate
          /\ ~EndedEarlyInside

\* a tracer that marched into still fluid and stopped there
C12_Witness ==
    /\ stream.stagnationExit
    /\ EndedEarlyInside
    /\ Len(stream.points) > 1
    /\ SpeedBelowThreshold(stream.p)
    /\ ~SpeedBelowThreshold(stream.seed)

\* the points at which the four stages of an iteration from q read the field
StagePoints(q) ==
    LET h  == stepLength(stream.chord)
        k1 == rkStage(stream.field, q, h)
        k2 == rkStage(stream.field, VAdd(q, VHalf(k1)), h)
        k3 == rkStage(stream.field, VAdd(q, VHalf(k2)), h)
    IN  <<q, VAdd(q, VHalf(k1)), VAdd(q, VHalf(k2)), VAdd(q, k3)>>

\* the four stages of an iteration from q read one direction, at speeds of
\* at least 1e-5
SameDirectionAt(sp) ==
    \A a \in 1..4 :
        /\ velocityAt(stream.field, sp[a]).mag \in {"fast", "slow"}
        /\ velocityAt(stream.field, sp[a]).dir = velocityAt(stream.field, sp[1]).dir

OneDirection(q) == SameDirectionAt(StagePoints(q))

\* squared length of the k-th step of the run
StepLength2(k) == Dist2(StepOrigin(k - 1), stream.points[k])

\* the step that recorded the last point (every step of a run is the last
\* one in the state it leads to)
LastStep == Len(stream.points)

\* C13 (as stated): every step moves the tracer by the same arc length
\* h = 0.03 chord, whatever the field and the local speed: consecutive
\* points, and the seed and the first point, are h apart.
C13_FixedArcLength ==
    LastStep > 0 =>
        StepLength2(LastStep) = stepLength(stream.chord) * stepLength(stream.chord)

\* C13 (amended): every step moves the tracer by at most h = 0.03 chord,
\* and by exactly h when its four stages read one direction at speeds of at
\* least 1e-5.
C13_ArcLengthAtMostStep ==
    LastStep > 0 =>
        /\ StepLength2(LastStep) <= stepLength(stream.chord) * stepLength(stream.chord)
        /\ OneDirection(StepOrigin(LastStep - 1))
              => StepLength2(LastStep) = stepLength(stream.chord) * stepLength(stream.chord)

\* a run with a full step followed by a shorter one that still moves
C13_Witness ==
    /\ stream.chord # 0
    /\ \E k \in {LastStep} \cap (2..maxSteps) :
          /\ OneDirection(StepOrigin(k - 2))
          /\ StepLength2(k - 1) = stepLength(stream.chord) * stepLength(stream.chord)
          /\ ~OneDirection(StepOrigin(k - 1))
          /\ StepLength2(k) > 0
          /\ StepLength2(k) < stepLength(stream.chord) * stepLength(stream.chord)

---------------------------------------------------------------------------
(* Properties of velocityFromPanels (specification SolveSpec) *)

\* freestream + sum_j sigma[j] source_j + gamma sum_j vortex_j, for the
\* influences infl[j] of the panels at the point
SuperposedAt(infl) ==
    LET n == Len(infl)
    IN  [c \in 1..2 |->
            BAdd(BAdd(BRat(vInfVec(inp)[c]),
                      BSum([j \in 1..n |->
                              BScale(infl[j].sourceVelocity[c], out.sigma[j])], 1)),
                 BScale(RSum([j \in 1..n |-> infl[j].vortexVelocity[c]], 1),
                        out.gamma))]

SuperposedVelocity ==
    SuperposedAt([j \in 1..Len(out.panels) |->
                    panelInfluence(out.panels[j], vel.terms[j])])

\* C14: velocityFromPanels returns the freestream vector (Vinf cos alpha,
\* Vinf sin alpha) plus the sum over the panels of sigma[j] times the
\* panel's source velocity at the point plus gamma times the sum of the
\* panels' vortex velocities at the point; for a solution without panels it
\* returns the freestream vector.
C14_SuperposedVelocity ==
    vel.evaluated =>
        /\ vel.v = SuperposedVelocity
        /\ Len(out.panels) = 0 =>
              vel.v = <<BRat(RMul(RInt(inp.Vinf), inp.cosA)),
                        BRat(RMul(RInt(inp.Vinf), inp.sinA))>>

\* a velocity with freestream, source and vortex parts all present
C14_Witness ==
    /\ vel.evaluated
    /\ Len(out.panels) = 4
    /\ inp.Vinf > 0
    /\ lin.floored = {}
    /\ out.gamma # <<>>
    /\ \E j \in 1..4 : out.sigma[j] # <<>>
    /\ vel.v[1] # <<>>
    /\ vel.v[2] # <<>>
    /\ vel.v # <<BRat(RMul(RInt(inp.Vinf), inp.cosA)),
                 BRat(RMul(RInt(inp.Vinf), inp.sinA))>>

---------------------------------------------------------------------------
(* generateNaca4Airfoil (geometry.ts, lines 60-120).                        *)
(*                                                                          *)
(* Numbers are rationals <<n, d>> with d > 0, extended by the values a      *)
(* division by zero produces in IEEE arithmetic: <<1, 0>> is +Infinity,     *)
(* <<-1, 0>> is -Infinity and <<0, 0>> is NaN.                              *)
(*                                                                          *)
(* The transcendental functions are modelled by what the properties below   *)
(* depend on.  Cosine spacing 0.5 (1 - cos(pi i / count)) is replaced by    *)
(* the cubic 3 s^2 - 2 s^3 of s = i / count: it is 0 at i = 0, 1 at         *)
(* i = count (cos 0 = 1 and cos pi = -1 are exact) and increasing; it is    *)
(* rounded to hundredths.  The thickness polynomial is evaluated at the     *)
(* station rounded to tenths, with a table of square roots, and rounded to  *)
(* thousandths.  sin(atan(s)) and cos(atan(s)) are 0 and   *)
(* 1 for s = 0, NaN for s = NaN, and a fixed direction of the sign of s     *)
(* otherwise.                                                               *)

NaN == <<0, 0>>
IsFinite(a) == a[2] # 0
XNeg(a) == <<-a[1], a[2]>>

\* IEEE product, sum, difference and quotient
XMul(a, b) ==
    IF IsFinite(a) /\ IsFinite(b) THEN RMul(a, b)
    ELSE IF a[1] = 0 \/ b[1] = 0 THEN NaN
    ELSE <<Sign(a[1]) * Sign(b[1]), 0>>

XAdd(a, b) ==
    IF IsFinite(a) /\ IsFinite(b) THEN RAdd(a, b)
    ELSE IF a = NaN \/ b = NaN THEN NaN
    ELSE IF ~IsFinite(a) /\ ~IsFinite(b) THEN (IF a = b THEN a ELSE NaN)
    ELSE IF IsFinite(a) THEN b ELSE a

XSub(a, b) == XAdd(a, XNeg(b))

XDiv(a, b) ==
    IF IsFinite(a) /\ IsFinite(b)
    THEN IF b[1] # 0 THEN RDiv(a, b)
         ELSE IF a[1] = 0 THEN NaN ELSE <<Sign(a[1]), 0>>
    ELSE IF a = NaN \/ b = NaN THEN NaN
    ELSE IF ~IsFinite(a) /\ ~IsFinite(b) THEN NaN
    ELSE IF IsFinite(a) THEN R0
    ELSE <<Sign(a[1]) * (IF b[1] < 0 THEN -1 ELSE 1), 0>>

\* Math.floor
RFloor(a) == a[1] \div a[2]

\* line 19: Math.min(1, Math.max(0, value))
clamp01(value) ==
    IF RLess(value, R0) THEN R0 ELSE IF RLess(R1, value) THEN R1 ELSE value

\* a count without the minimum of 20
stationCountNoMinimum(resolution) == RFloor(resolution)

\* line 70: Math.max(20, Math.floor(resolution))
stationCount(resolution) == Max2(20, RFloor(resolution))

\* lines 76-77: the station xBar of index i
xBarAt(i, count) ==
    RNorm((200 * i * i * (3 * count - 2 * i) + count * count * count)
              \div (2 * count * count * count), 100)

\* a camber test that looks at m only
hasCamberWhateverP(mVal, pVal) == RLess(R0, mVal)

\* line 82: mVal > 0 && pVal > 0
hasCamber(mVal, pVal) == RLess(R0, mVal) /\ RLess(R0, pVal)

\* lines 80-91: yc and dycDx at xBar
camberLine(mVal, pVal, xBar) ==
    IF ~hasCamber(mVal, pVal) THEN [yc |-> R0, dycDx |-> R0]
    ELSE IF RLess(xBar, pVal)
    THEN [yc |-> XMul(XDiv(mVal, RMul(pVal, pVal)),
                      RSub(RMul(RMul(RInt(2), pVal), xBar), RMul(xBar, xBar))),
          dycDx |-> XMul(XDiv(RMul(RInt(2), mVal), RMul(pVal, pVal)),
                         RSub(pVal, xBar))]
    ELSE [yc |-> XMul(XDiv(mVal, RMul(RSub(R1, pVal), RSub(R1, pVal))),
                      RSub(RAdd(RSub(R1, RMul(RInt(2), pVal)),
                                RMul(RMul(RInt(2), pVal), xBar)),
                           RMul(xBar, xBar))),
          dycDx |-> XMul(XDiv(RMul(RInt(2), mVal),
                              RMul(RSub(R1, pVal), RSub(R1, pVal))),
                         RSub(pVal, xBar))]

\* the station in tenths, and Math.sqrt of tenths in thousandths
Tenths(xBar) == (20 * xBar[1] + xBar[2]) \div (2 * xBar[2])
SqrtOfTenths == <<0, 316, 447, 548, 632, 707, 775, 837, 894, 949, 1000>>

\* lines 96-100: the bracket of the thickness distribution at a tenths
thicknessProfile(a) ==
    RNorm((29690 * SqrtOfTenths[a + 1] - 1260000 * a - 351600 * a * a
               + 28430 * a * a * a - 1015 * a * a * a * a + 50000) \div 100000,
          1000)

\* a thickness that ignores t
thicknessUnscaled(tVal, xBar) == RMul(RInt(5), thicknessProfile(Tenths(xBar)))

\* lines 93-100
thickness(tVal, xBar) == RMul(RMul(RInt(5), tVal), thicknessProfile(Tenths(xBar)))

\* lines 102-104: sinT and cosT of thetaCamber = Math.atan(dycDx)
camberDirection(dycDx) ==
    IF dycDx = NaN THEN [sinT |-> NaN, cosT |-> NaN]
    ELSE IF ~IsFinite(dycDx) THEN [sinT |-> RInt(dycDx[1]), cosT |-> R0]
    ELSE IF dycDx[1] = 0 THEN [sinT |-> R0, cosT |-> R1]
    ELSE [sinT |-> <<3 * Sign(dycDx[1]), 5>>, cosT |-> <<4, 5>>]

\* lines 105-116: the three points pushed at a station
stationPoints(xBar, chord, cl, th, dir) ==
    [upper  |-> <<XSub(RMul(xBar, chord), XMul(RMul(th, chord), dir.sinT)),
                  XAdd(XMul(cl.yc, chord), XMul(RMul(th, chord), dir.cosT))>>,
     lower  |-> <<XAdd(RMul(xBar, chord), XMul(RMul(th, chord), dir.sinT)),
                  XSub(XMul(cl.yc, chord), XMul(RMul(th, chord), dir.cosT))>>,
     camber |-> <<RMul(xBar, chord), XMul(cl.yc, chord)>>]

\* lines 76-116: the body of the loop for index i
stationOf(f, xBar, cl) ==
    stationPoints(xBar, f.chord, cl, thickness(f.tVal, xBar), camberDirection(cl.dycDx))

nacaStation(f, i) ==
    stationOf(f, xBarAt(i, f.count), camberLine(f.mVal, f.pVal, xBarAt(i, f.count)))

\* arguments of the runs
NacaCambers == { <<-1, 50>>, <<0, 1>>, <<1, 50>>, <<3, 2>> }
NacaPositions == { <<-1, 1>>, <<0, 1>>, <<2, 5>>, <<1, 1>>, <<2, 1>> }
NacaThicknesses == { <<0, 1>>, <<3, 25>>, <<2, 1>> }
NacaChords == { <<1, 1>>, <<2, 1>> }
NacaResolutions == { <<-5, 1>>, <<0, 1>>, <<39, 2>>, <<20, 1>>, <<43, 2>> }

NacaInit ==
    /\ pc = "naca"
    /\ contour = <<>>
    /\ closed = <<>>
    /\ points = <<>>
    /\ panels = <<>>
    /\ te = NoTE
    /\ inp = NoInput
    /\ sys = NoSystem
    /\ lin = NoSolve
    /\ out = NoOutput
    /\ stream = NoStream
    /\ vel = NoVelocity
    /\ heap = NoHeap
    /\ frame = NoFrame
    /\ scene = NoScene
    /\ lift = NoLift
    /\ \E m \in NacaCambers, p \in NacaPositions, t \in NacaThicknesses,
          c \in NacaChords, r \in NacaResolutions :
           foil = [called |-> TRUE, m |-> m, p |-> p, t |-> t, chord |-> c,
                   resolution |-> r,
                   mVal |-> clamp01(m), pVal |-> clamp01(p), tVal |-> clamp01(t),
                   count |-> stationCount(r), i |-> 0,
                   upper |-> <<>>, lower |-> <<>>, camber |-> <<>>]

\* one iteration of the loop of line 75
NacaStation ==
    /\ pc = "naca"
    /\ foil.i <= foil.count
    /\ \E s \in {nacaStation(foil, foil.i)} :
           foil' = [foil EXCEPT !.i = @ + 1,
                                !.upper = Append(@, s.upper),
                                !.lower = Append(@, s.lower),
                                !.camber = Append(@, s.camber)]
    /\ UNCHANGED <<pc, geomVars, solveVars, stream, vel, lift, heap, frame, scene>>

\* line 119
NacaReturn ==
    /\ pc = "naca"
    /\ foil.i > foil.count
    /\ pc' = "generated"
    /\ UNCHANGED <<geomVars, solveVars, stream, evalVars>>

NacaNext == NacaStation \/ NacaReturn

NacaSpec == NacaInit /\ [][NacaNext]_vars

---------------------------------------------------------------------------
(* Properties of generateNaca4Airfoil (specification NacaSpec).             *)

Generated == pc = "generated"

\* C15: upper, lower and camber all have exactly count + 1 points, where
\* count = max(20, floor(resolution)), for every finite resolution:
\* below 20, fractional or negative.
C15_StationCount ==
    Generated =>
        /\ Len(foil.upper) = Max2(20, RFloor(foil.resolution)) + 1
        /\ Len(foil.lower) = Len(foil.upper)
        /\ Len(foil.camber) = Len(foil.upper)

\* a run with a negative resolution has returned 21 points per sequence
C15_Witness ==
    /\ Generated
    /\ RLess(foil.resolution, R0)
    /\ Len(foil.upper) = 21

\* C16: with thickness t = 0 and camber m = 0 the upper and the lower
\* surface are equal point for point, and every point lies on the chord
\* line y = 0.
C16_FlatPlate ==
    (foil.called /\ foil.m = R0 /\ foil.t = R0) =>
        /\ foil.upper = foil.lower
        /\ \A k \in 1..Len(foil.upper) :
               /\ foil.upper[k][2] = R0
               /\ foil.camber[k][2] = R0

\* a flat plate of 21 stations has been returned, its last point at the
\* trailing edge (chord, 0)
C16_Witness ==
    /\ Generated
    /\ foil.m = R0
    /\ foil.t = R0
    /\ Len(foil.upper) = 21
    /\ foil.upper[21] = <<foil.chord, R0>>

HasCamberAfterClamping == RLess(R0, foil.mVal) /\ RLess(R0, foil.pVal)

\* C17: unless both m > 0 and p > 0 after clamping, the section is
\* symmetric: every camber point has y = 0, and at every station
\* upper.x = lower.x = camber.x and upper.y = -lower.y.
C17_SymmetricSection ==
    (foil.called /\ ~HasCamberAfterClamping) =>
        \A k \in 1..Len(foil.camber) :
            /\ foil.camber[k][2] = R0
            /\ foil.upper[k][1] = foil.camber[k][1]
            /\ foil.lower[k][1] = foil.camber[k][1]
            /\ foil.upper[k][2] = XNeg(foil.lower[k][2])

\* a thick section with m > 0 and p = 0 has been returned
C17_Witness ==
    /\ Generated
    /\ RLess(R0, foil.mVal)
    /\ foil.pVal = R0
    /\ \E k \in 1..Len(foil.upper) : RLess(R0, foil.upper[k][2])

FinitePoint(q) == IsFinite(q[1]) /\ IsFinite(q[2])

\* C18: for every m, p and t, including the boundary values p = 1 and
\* p = 0, every returned coordinate is a finite number.
C18_AllCoordinatesFinite ==
    foil.called =>
        \A k \in 1..Len(foil.camber) :
            /\ FinitePoint(foil.upper[k])
            /\ FinitePoint(foil.lower[k])
            /\ FinitePoint(foil.camber[k])

---------------------------------------------------------------------------
(* thinAirfoilLiftCoefficient (aerodynamics.ts, lines 376-383) and clamp    *)
(* (lines 17-18).  Math.PI is a rational number close to pi; 355/113        *)
(* stands for it, and the angle 452/1775 makes the raw coefficient exactly  *)
(* 8/5.  An omitted clLimit is the empty sequence, a given one <<limit>>.   *)

MathPI == <<355, 113>>
DefaultClLimit == <<8, 5>>

\* Math.min and Math.max
RMin(a, b) == IF RLess(b, a) THEN b ELSE a
RMax(a, b) == IF RLess(a, b) THEN b ELSE a

\* a clamp without the lower bound
clampFromAbove(value, min, max) == RMin(max, value)

\* lines 17-18
clamp(value, min, max) == RMin(max, RMax(min, value))

\* line 379: the default parameter value
clLimitOf(given) == IF given = <<>> THEN DefaultClLimit ELSE given[1]

\* line 381
rawLift(alpha) == RMul(RMul(RInt(2), MathPI), alpha)

\* lines 381-382
thinAirfoilLiftCoefficient(alpha, given) ==
    clamp(rawLift(alpha), RNeg(clLimitOf(given)), clLimitOf(given))

\* arguments of the calls: angles k/20 rad and +-452/1775 rad, limits
\* omitted, 0, 1/2, 8/5, 2 and 4
LiftAlphaMax == 12
LiftAlphas ==
    { RNorm(k, 20) : k \in (-LiftAlphaMax)..LiftAlphaMax }
        \cup { <<452, 1775>>, <<-452, 1775>> }
LiftLimits == { <<>>, <<R0>>, <<<<1, 2>>>>, <<<<8, 5>>>>, <<RInt(2)>>, <<RInt(4)>> }

LiftInit ==
    /\ pc = "lift"
    /\ contour = <<>>
    /\ closed = <<>>
    /\ points = <<>>
    /\ panels = <<>>
    /\ te = NoTE
    /\ inp = NoInput
    /\ sys = NoSystem
    /\ lin = NoSolve
    /\ out = NoOutput
    /\ stream = NoStream
    /\ vel = NoVelocity
    /\ heap = NoHeap
    /\ frame = NoFrame
    /\ scene = NoScene
    /\ foil = NoFoil
    /\ \E a \in LiftAlphas, l \in LiftLimits :
           lift = [called |-> FALSE, alpha |-> a, given |-> l]

LiftReturn ==
    /\ pc = "lift"
    /\ pc' = "lifted"
    /\ lift' = [called |-> TRUE, alpha |-> lift.alpha, given |-> lift.given,
                cl |-> thinAirfoilLiftCoefficient(lift.alpha, lift.given)]
    /\ UNCHANGED <<geomVars, solveVars, stream, vel, foil, heap, frame, scene>>

LiftNext == LiftReturn

LiftSpec == LiftInit /\ [][LiftNext]_vars

---------------------------------------------------------------------------
(* Properties of thinAirfoilLiftCoefficient (specification LiftSpec).       *)

RLeq(a, b) == ~RLess(b, a)
TwoPiAlpha == RMul(RMul(RInt(2), MathPI), lift.alpha)

\* C19: with the default limit the result is 2 pi alpha whenever
\* |2 pi alpha| <= 1.6, +1.6 when 2 pi alpha > 1.6 and -1.6 when
\* 2 pi alpha < -1.6; for any non-negative clLimit the result lies in
\* [-clLimit, clLimit].
C19_ClampedLift ==
    lift.called =>
        /\ lift.given = <<>> =>
               /\ RLeq(RAbs(TwoPiAlpha), <<8, 5>>) => lift.cl = TwoPiAlpha
               /\ RLess(<<8, 5>>, TwoPiAlpha) => lift.cl = <<8, 5>>
               /\ RLess(TwoPiAlpha, <<-8, 5>>) => lift.cl = <<-8, 5>>
        /\ \A l \in {lift.given[k] : k \in 1..Len(lift.given)} :
               RLeq(R0, l) => RLeq(RNeg(l), lift.cl) /\ RLeq(lift.cl, l)

\* a call with the limit omitted has been clamped from below at -1.6
C19_Witness ==
    /\ lift.called
    /\ lift.given = <<>>
    /\ RLess(TwoPiAlpha, <<-8, 5>>)
    /\ lift.cl = <<-8, 5>>

---------------------------------------------------------------------------
(* The divisors of solveLinearSystem (aerodynamics.ts, lines 117-159) on    *)
(* matrices with entries near zero.  Here the entries of A and b are        *)
(* measured in units of 1e-12, so that the constant 1e-12 of lines 140 and  *)
(* 156 is 1 and an entry 1/2 is the number 0.5e-12; the factors and the     *)
(* solution are quotients of two such numbers and carry no unit.  The       *)
(* outer loops run one iteration per step.                                  *)

PivotFloor == R1

\* lines 140 and 156: value || 1e-12
pivotOrFloor(value) == IF value = R0 THEN PivotFloor ELSE value

\* lines 140-147: the elimination of the rows below row k by the pivot
eliminateByPivot(M1, x1, k, pivot) ==
    [M |-> [i \in 1..Len(x1) |->
              IF i <= k THEN M1[i]
              ELSE eliminateRow(M1[i], x1[i], M1[k], x1[k], k,
                                RDiv(M1[i][k], pivot)).row],
     x |-> [i \in 1..Len(x1) |->
              IF i <= k THEN x1[i]
              ELSE eliminateRow(M1[i], x1[i], M1[k], x1[k], k,
                                RDiv(M1[i][k], pivot)).x]]

\* lines 123-147: one iteration of the elimination loop
pivotStep(M, x, k, maxRow) ==
    eliminateByPivot(SwapEntries(M, k, maxRow), SwapEntries(x, k, maxRow), k,
                     pivotOrFloor(SwapEntries(M, k, maxRow)[k][k]))

\* lines 152-155: sum
RECURSIVE unitRowSum(_, _, _, _, _)
unitRowSum(M, sol, i, j, acc) ==
    IF j > Len(sol) THEN acc
    ELSE unitRowSum(M, sol, i, j + 1, RSub(acc, RMul(M[i][j], sol[j])))

\* the systems solved: 2 x 2 with entries 0, +-0.5e-12 and 2e-12, and
\* 3 x 3 with entries 0 and 0.5e-12
FloorMatrices ==
    [1..2 -> [1..2 -> {R0, <<1, 2>>, <<-1, 2>>, RInt(2)}]]
        \cup [1..3 -> [1..3 -> {R0, <<1, 2>>}]]
FloorRhs(n) == { [i \in 1..n |-> R1], [i \in 1..n |-> IF i = 1 THEN R0 ELSE R1] }

FloorInit ==
    /\ pc = "eliminate"
    /\ contour = <<>>
    /\ closed = <<>>
    /\ points = <<>>
    /\ panels = <<>>
    /\ te = NoTE
    /\ inp = NoInput
    /\ sys = NoSystem
    /\ out = NoOutput
    /\ stream = NoStream
    /\ vel = NoVelocity
    /\ heap = NoHeap
    /\ frame = NoFrame
    /\ scene = NoScene
    /\ foil = NoFoil
    /\ lift = NoLift
    /\ \E A \in FloorMatrices :
           \E b \in FloorRhs(Len(A)) :
               lin = [A |-> A, b |-> b, M |-> A, x |-> b, k |-> 1, i |-> 0,
                      solution |-> <<>>, divisors |-> <<>>]

\* lines 122-148: iteration k of the elimination loop
FloorEliminate ==
    /\ pc = "eliminate"
    /\ lin.k <= Len(lin.x)
    /\ \E maxRow \in {scanMax(lin.M, lin.k, lin.k + 1, lin.k, Len(lin.x))} :
         \E e \in {pivotStep(lin.M, lin.x, lin.k, maxRow)} :
           lin' = [lin EXCEPT !.M = e.M, !.x = e.x, !.k = @ + 1,
                              !.divisors =
                                  IF lin.k < Len(lin.x)
                                  THEN Append(@, pivotOrFloor(e.M[lin.k][lin.k]))
                                  ELSE @]
    /\ UNCHANGED <<pc, geomVars, inp, sys, out, stream, evalVars>>

\* line 150
FloorFill ==
    /\ pc = "eliminate"
    /\ lin.k > Len(lin.x)
    /\ pc' = "substitute"
    /\ lin' = [lin EXCEPT !.solution = [i \in 1..Len(lin.x) |-> R0],
                          !.i = Len(lin.x)]
    /\ UNCHANGED <<geomVars, inp, sys, out, stream, evalVars>>

\* lines 151-157: iteration i of the back substitution
FloorSubstitute ==
    /\ pc = "substitute"
    /\ lin.i >= 1
    /\ \E d \in {pivotOrFloor(lin.M[lin.i][lin.i])} :
           lin' = [lin EXCEPT
                      !.solution[lin.i] =
                          RDiv(unitRowSum(lin.M, lin.solution, lin.i, lin.i + 1,
                                          lin.x[lin.i]), d),
                      !.i = @ - 1,
                      !.divisors = Append(@, d)]
    /\ UNCHANGED <<pc, geomVars, inp, sys, out, stream, evalVars>>

\* line 158
FloorReturn ==
    /\ pc = "substitute"
    /\ lin.i < 1
    /\ pc' = "solved"
    /\ UNCHANGED <<geomVars, solveVars, stream, evalVars>>

FloorNext == FloorEliminate \/ FloorFill \/ FloorSubstitute \/ FloorReturn

FloorSpec == FloorInit /\ [][FloorNext]_vars

---------------------------------------------------------------------------
(* Properties of the divisors of solveLinearSystem (specification          *)
(* FloorSpec).                                                              *)

InFloorRun == pc \in {"eliminate", "substitute", "solved"}

\* C20: every divisor, the pivot of each elimination step and the diagonal
\* entry of each back-substitution step, is floored to 1e-12 whenever it is
\* zero or of magnitude below 1e-12: no divisor used is smaller in
\* magnitude than 1e-12.
C20_DivisorsFloored ==
    InFloorRun =>
        \A d \in 1..Len(lin.divisors) :
            ~RLess(RAbs(lin.divisors[d]), PivotFloor)

---------------------------------------------------------------------------
(* The objects the core functions read and write.  JavaScript arrays and    *)
(* three.js vectors are objects with an identity: two names may hold the    *)
(* same array, and Array.prototype.reverse, an indexed assignment and the   *)
(* Vector2 methods add, addScaledVector and multiplyScalar write into the   *)
(* object they are called on.  heap maps each object, named <<name, k>>,    *)
(* to its present value: an array to the sequence of its elements (the      *)
(* names of its points or rows, or numbers), a vector to <<x, y>>.  frame   *)
(* holds the references of the running call's locals, and in frame.before   *)
(* the values its argument objects had when it was called.                  *)

Obj(name, k) == <<name, k>>

\* the heap h with the object o holding v (o is created if it is new)
Store(h, o, v) == [q \in DOMAIN h \cup {o} |-> IF q = o THEN v ELSE h[q]]

\* the values of the elements of the array held by o
Deref(h, o) == [k \in 1..Len(h[o]) |-> h[h[o][k]]]

\* an array of n objects (points or rows): the array and one object per element
ArrayOfObjects(name, c) ==
    [q \in {Obj(name, k) : k \in 0..Len(c)} |->
        IF q[2] = 0 THEN [k \in 1..Len(c) |-> Obj(name, k)] ELSE c[q[2]]]

\* lines 49-54: closed
closeLoopRef(h, contourRef) ==
    IF Dist2(Deref(h, contourRef)[1], Deref(h, contourRef)[Len(h[contourRef])])
           < CloseTolSq
    THEN [heap |-> h, ref |-> contourRef]
    ELSE [heap |-> Store(Store(h, Obj("first.clone", 0), h[h[contourRef][1]]),
                         Obj("closed", 0),
                         Append(h[contourRef], Obj("first.clone", 0))),
          ref  |-> Obj("closed", 0)]

\* a reversal of the array itself
reverseInPlace(h, ref, new) ==
    [heap |-> Store(h, ref, Reverse(h[ref])), ref |-> ref]

\* line 55: closed.slice().reverse()
sliceThenReverse(h, ref, new) ==
    [heap |-> Store(h, new, Reverse(h[ref])), ref |-> new]

\* line 55: points
orientLoopRef(h, closedRef) ==
    IF polygonArea(Deref(h, closedRef)) > 0
    THEN sliceThenReverse(h, closedRef, Obj("points", 0))
    ELSE [heap |-> h, ref |-> closedRef]

\* lines 57-75: iteration i of the panel loop (i counts from 1)
panelObjects(h, pointsRef, i) ==
    IF Deref(h, pointsRef)[i] = Deref(h, pointsRef)[i + 1] THEN h
    ELSE Store(Store(h, Obj("panel.start", i), Deref(h, pointsRef)[i]),
               Obj("panel.end", i), Deref(h, pointsRef)[i + 1])

\* the contours passed: every 3-point contour of the grid, open or closed,
\* and every such loop closed by a copy of its first point
FrameContours ==
    [1..3 -> GridPoint] \cup { Append(c, c[1]) : c \in [1..3 -> GridPoint] }

FrameRest ==
    /\ contour = <<>>
    /\ closed = <<>>
    /\ points = <<>>
    /\ panels = <<>>
    /\ te = NoTE
    /\ inp = NoInput
    /\ sys = NoSystem
    /\ lin = NoSolve
    /\ out = NoOutput
    /\ stream = NoStream
    /\ vel = NoVelocity
    /\ foil = NoFoil
    /\ lift = NoLift
    /\ scene = NoScene

FrameInitBuild ==
    /\ pc = "buildPanels"
    /\ \E c \in FrameContours :
           /\ heap = ArrayOfObjects("contour", c)
           /\ frame = [fn |-> "buildPanels", before |-> ArrayOfObjects("contour", c),
                       closed |-> Obj("contour", 0), points |-> Obj("contour", 0),
                       i |-> 0]

\* lines 49-54
FrameClose ==
    /\ pc = "buildPanels"
    /\ \E r \in {closeLoopRef(heap, Obj("contour", 0))} :
           /\ heap' = r.heap
           /\ frame' = [frame EXCEPT !.closed = r.ref]
    /\ pc' = "closed"
    /\ UNCHANGED <<geomVars, solveVars, stream, vel, foil, lift, scene>>

\* line 55
FrameOrient ==
    /\ pc = "closed"
    /\ \E r \in {orientLoopRef(heap, frame.closed)} :
           /\ heap' = r.heap
           /\ frame' = [frame EXCEPT !.points = r.ref, !.i = 1]
    /\ pc' = "oriented"
    /\ UNCHANGED <<geomVars, solveVars, stream, vel, foil, lift, scene>>

\* lines 57-75
FramePanel ==
    /\ pc = "oriented"
    /\ frame.i < Len(heap[frame.points])
    /\ heap' = panelObjects(heap, frame.points, frame.i)
    /\ frame' = [frame EXCEPT !.i = @ + 1]
    /\ UNCHANGED <<pc, geomVars, solveVars, stream, vel, foil, lift, scene>>

\* line 76
FrameBuildReturn ==
    /\ pc = "oriented"
    /\ frame.i >= Len(heap[frame.points])
    /\ pc' = "framed"
    /\ UNCHANGED <<geomVars, solveVars, stream, evalVars>>

\* the heap h with the objects of f holding the values f gives them
StoreAll(h, f) ==
    [q \in DOMAIN h \cup DOMAIN f |-> IF q \in DOMAIN f THEN f[q] ELSE h[q]]

\* a copy of the array only: its rows are the rows of a
copyArrayOnly(h, a, m) == Store(h, Obj(m, 0), h[Obj(a, 0)])

\* line 119: A.map((row) => row.slice())
copyRows(h, a, m) ==
    StoreAll(h, [q \in {Obj(m, k) : k \in 0..Len(h[Obj(a, 0)])} |->
                    IF q[2] = 0 THEN [k \in 1..Len(h[Obj(a, 0)]) |-> Obj(m, k)]
                    ELSE h[h[Obj(a, 0)][q[2]]]])

\* lines 123-147: the writes of elimination step k.  The rows k and maxRow
\* change places in the array M, then the rows below k and x are assigned
\* entry by entry.
eliminateInPlace(h, k, maxRow, e) ==
    StoreAll(h, [q \in {Obj("M", 0), Obj("x", 0)} \cup
                       {SwapEntries(h[Obj("M", 0)], k, maxRow)[i] :
                            i \in 1..Len(e.x)} |->
                    IF q = Obj("M", 0) THEN SwapEntries(h[Obj("M", 0)], k, maxRow)
                    ELSE IF q = Obj("x", 0) THEN e.x
                    ELSE e.M[CHOOSE i \in 1..Len(e.x) :
                                 SwapEntries(h[Obj("M", 0)], k, maxRow)[i] = q]])

\* lines 150-157
RECURSIVE unitBackSubstitute(_, _, _, _)
unitBackSubstitute(M, x, i, sol) ==
    IF i < 1 THEN sol
    ELSE unitBackSubstitute(M, x, i - 1,
             [sol EXCEPT ![i] = RDiv(unitRowSum(M, sol, i, i + 1, x[i]),
                                     pivotOrFloor(M[i][i]))])

\* the systems passed: entries in units of 1e-12, as in FloorSpec
FrameMatrices == [1..2 -> [1..2 -> {R0, <<1, 2>>, RInt(2)}]]

FrameInitSolve ==
    /\ pc = "solveLinearSystem"
    /\ \E A \in FrameMatrices, b \in FloorRhs(2) :
         \E h \in {Store(ArrayOfObjects("A", A), Obj("b", 0), b)} :
           /\ heap = h
           /\ frame = [fn |-> "solveLinearSystem", before |-> h, k |-> 1]

\* lines 119-120
FrameCopy ==
    /\ pc = "solveLinearSystem"
    /\ heap' = Store(copyRows(heap, "A", "M"), Obj("x", 0), heap[Obj("b", 0)])
    /\ pc' = "eliminate rows"
    /\ UNCHANGED <<geomVars, solveVars, stream, vel, foil, lift, frame, scene>>

\* lines 122-148: iteration k of the elimination loop
FrameEliminate ==
    /\ pc = "eliminate rows"
    /\ frame.k <= Len(heap[Obj("x", 0)])
    /\ \E maxRow \in {scanMax(Deref(heap, Obj("M", 0)), frame.k, frame.k + 1,
                              frame.k, Len(heap[Obj("x", 0)]))} :
         \E e \in {pivotStep(Deref(heap, Obj("M", 0)), heap[Obj("x", 0)],
                             frame.k, maxRow)} :
           heap' = eliminateInPlace(heap, frame.k, maxRow, e)
    /\ frame' = [frame EXCEPT !.k = @ + 1]
    /\ UNCHANGED <<pc, geomVars, solveVars, stream, vel, foil, lift, scene>>

\* lines 150-158
FrameSubstitute ==
    /\ pc = "eliminate rows"
    /\ frame.k > Len(heap[Obj("x", 0)])
    /\ heap' = Store(heap, Obj("solution", 0),
                     unitBackSubstitute(Deref(heap, Obj("M", 0)), heap[Obj("x", 0)],
                                        Len(heap[Obj("x", 0)]),
                                        [i \in 1..Len(heap[Obj("x", 0)]) |-> R0]))
    /\ pc' = "framed"
    /\ UNCHANGED <<geomVars, solveVars, stream, vel, foil, lift, frame, scene>>

\* the solved panel sets passed to velocityFromPanels: the two panels of a
\* doubled segment, along the x axis or along the direction (3, 4)/5, with
\* their strengths
FrameSolutions ==
    { [panels |-> <<makePanel(<<0, 0>>, e), makePanel(e, <<0, 0>>)>>,
       sigma |-> <<s, RNeg(s)>>, gamma |-> g] :
          e \in {<<2, 0>>, <<6, 8>>}, s \in {R0, R1}, g \in {R0, <<1, 2>>} }
FrameQueryPoints == { <<0, 2>>, <<2, -2>> }

\* the objects of a PanelMethodSolution and of the query point
SolutionObjects(sol, point) ==
    Store(Store(Store(ArrayOfObjects("solution.panels", sol.panels),
                      Obj("solution.sigma", 0), sol.sigma),
                Obj("solution.gamma", 0), sol.gamma),
          Obj("point", 0), point)

FrameInitVelocity ==
    /\ pc = "velocityFromPanels"
    /\ \E sol \in FrameSolutions, q \in FrameQueryPoints, Vinf \in SolveSpeeds,
          a \in SolveAngles, t \in PointTerms(2) :
         \E h \in {SolutionObjects(sol, q)} :
           /\ heap = h
           /\ frame = [fn |-> "velocityFromPanels", before |-> h,
                       in |-> [Vinf |-> Vinf, cosA |-> a[1], sinA |-> a[2]],
                       terms |-> t, idx |-> 0, vx |-> R0, vy |-> R0]

\* lines 272-276: vInfVec is a new vector, scaled where it is
FrameFreestream ==
    /\ pc = "velocityFromPanels"
    /\ heap' = Store(heap, Obj("vInfVec", 0), vInfVec(frame.in))
    /\ frame' = [frame EXCEPT !.idx = 1, !.vx = vInfVec(frame.in)[1],
                              !.vy = vInfVec(frame.in)[2]]
    /\ pc' = "forEach panel"
    /\ UNCHANGED <<geomVars, solveVars, stream, vel, foil, lift, scene>>

\* lines 277-285: the callback of forEach for the panel idx
FramePanelVelocity ==
    /\ pc = "forEach panel"
    /\ frame.idx <= Len(heap[Obj("solution.panels", 0)])
    /\ \E inf \in {panelInfluence(heap[heap[Obj("solution.panels", 0)][frame.idx]],
                                  frame.terms[frame.idx])} :
         \E sigma \in {heap[Obj("solution.sigma", 0)][frame.idx]} :
         \E gamma \in {heap[Obj("solution.gamma", 0)]} :
           /\ heap' = Store(Store(heap, Obj("sourceVelocity", frame.idx),
                                  inf.sourceVelocity),
                            Obj("vortexVelocity", frame.idx), inf.vortexVelocity)
           /\ frame' = [frame EXCEPT
                  !.idx = @ + 1,
                  !.vx = RAdd(RAdd(@, RMul(sigma, inf.sourceVelocity[1])),
                              RMul(gamma, inf.vortexVelocity[1])),
                  !.vy = RAdd(RAdd(@, RMul(sigma, inf.sourceVelocity[2])),
                              RMul(gamma, inf.vortexVelocity[2]))]
    /\ UNCHANGED <<pc, geomVars, solveVars, stream, vel, foil, lift, scene>>

\* line 286
FrameVelocityReturn ==
    /\ pc = "forEach panel"
    /\ frame.idx > Len(heap[Obj("solution.panels", 0)])
    /\ heap' = Store(heap, Obj("velocity", 0), <<frame.vx, frame.vy>>)
    /\ pc' = "framed"
    /\ UNCHANGED <<geomVars, solveVars, stream, vel, foil, lift, frame, scene>>

\* the tracers marched: chord 400 units
FrameSeeds == { <<-240, 0>>, <<120, -60>> }
FrameFields == {"uniform", "circulating", "stagnating"}

FrameInitStream ==
    /\ pc = "integrateStreamline"
    /\ \E s \in FrameSeeds, f \in FrameFields, e \in BOOLEAN :
         \E h \in {Store(NoHeap, Obj("seed", 0), s)} :
           /\ heap = h
           /\ frame = [fn |-> "integrateStreamline", before |-> h, field |-> f,
                       chord |-> 400, stagnationExit |-> e, p |-> Obj("seed", 0),
                       i |-> 0]

\* a tracer that is the seed itself
aliasVector(h, v, new) == [heap |-> h, ref |-> v]

\* seed.clone()
cloneVector(h, v, new) == [heap |-> Store(h, new, h[v]), ref |-> new]

\* part_002 line 74, part_001 line 32: let p = seed.clone()
FrameSeedClone ==
    /\ pc = "integrateStreamline"
    /\ \E r \in {cloneVector(heap, Obj("seed", 0), Obj("p", 0))} :
           /\ heap' = r.heap
           /\ frame' = [frame EXCEPT !.p = r.ref]
    /\ pc' = "march on"
    /\ UNCHANGED <<geomVars, solveVars, stream, vel, foil, lift, scene>>

\* one iteration that moves the tracer: the stage vectors are clones, and
\* p.add(delta) writes into the vector p holds
FrameMarch ==
    /\ pc = "march on"
    /\ loopContinues(frame.i)
    /\ ~(frame.stagnationExit
         /\ belowStagnationSpeed(velocityAt(frame.field, heap[frame.p])))
    /\ \E k1 \in {rkStage(frame.field, heap[frame.p], stepLength(frame.chord))} :
       \E k2 \in {rkStage(frame.field, VAdd(heap[frame.p], VHalf(k1)),
                          stepLength(frame.chord))} :
       \E k3 \in {rkStage(frame.field, VAdd(heap[frame.p], VHalf(k2)),
                          stepLength(frame.chord))} :
       \E k4 \in {rkStage(frame.field, VAdd(heap[frame.p], k3),
                          stepLength(frame.chord))} :
       \E q \in {VAdd(heap[frame.p], weightedMean(k1, k2, k3, k4))} :
           /\ heap' = Store(Store(heap, Obj("delta", 0), weightedMean(k1, k2, k3, k4)),
                            frame.p, q)
           /\ pc' = IF outsideDomain(q, frame.chord) THEN "framed" ELSE "march on"
    /\ frame' = [frame EXCEPT !.i = @ + 1]
    /\ UNCHANGED <<geomVars, solveVars, stream, vel, foil, lift, scene>>

\* the loop ends on the stagnation test or on its budget
FrameMarchEnd ==
    /\ pc = "march on"
    /\ \/ ~loopContinues(frame.i)
       \/ /\ frame.stagnationExit
          /\ belowStagnationSpeed(velocityAt(frame.field, heap[frame.p]))
    /\ pc' = "framed"
    /\ UNCHANGED <<geomVars, solveVars, stream, evalVars>>

FrameInit ==
    /\ FrameRest
    /\ \/ FrameInitBuild
       \/ FrameInitSolve
       \/ FrameInitVelocity
       \/ FrameInitStream

FrameNext ==
    \/ FrameClose
    \/ FrameOrient
    \/ FramePanel
    \/ FrameBuildReturn
    \/ FrameCopy
    \/ FrameEliminate
    \/ FrameSubstitute
    \/ FrameFreestream
    \/ FramePanelVelocity
    \/ FrameVelocityReturn
    \/ FrameSeedClone
    \/ FrameMarch
    \/ FrameMarchEnd

FrameSpec == FrameInit /\ [][FrameNext]_vars

---------------------------------------------------------------------------
(* Properties of the objects passed to the core functions (specification   *)
(* FrameSpec).                                                              *)

\* C21: the core functions leave their inputs as they were: buildPanels the
\* caller's contour array and its points (also when the loop is auto-closed
\* or reversed), solveLinearSystem the matrix A, its rows and the vector b,
\* velocityFromPanels the solution and the query point, integrateStreamline
\* the seed point.
C21_InputsUnchanged ==
    frame.fn # "none" =>
        \A o \in DOMAIN frame.before : heap[o] = frame.before[o]

\* buildPanels has returned from a contour it closed and reversed
C21_Witness ==
    /\ pc = "framed"
    /\ frame.fn = "buildPanels"
    /\ frame.closed = Obj("closed", 0)
    /\ frame.points = Obj("points", 0)
    /\ heap[Obj("points", 0)] = Reverse(heap[Obj("closed", 0)])
    /\ Obj("panel.start", 3) \in DOMAIN heap

---------------------------------------------------------------------------
(* Properties of the pivoting of solveLinearSystem (specification          *)
(* FloorSpec).                                                              *)

\* the lowest row index from k down whose entry in column k is largest in
\* magnitude
LowestLargest(M, k) ==
    CHOOSE r \in k..Len(M) :
        /\ \A i \in k..Len(M) : ~RLess(RAbs(M[r][k]), RAbs(M[i][k]))
        /\ \A i \in k..(r - 1) : RLess(RAbs(M[i][k]), RAbs(M[r][k]))

\* the row that is at position i after rows k and r changed places
RowBeforeSwap(i, k, r) == IF i = k THEN r ELSE IF i = r THEN k ELSE i

\* the step from M, x to M2, x2 put row r with its right-hand side at
\* position k and took the same multiple of it from each later row and
\* from that row's own right-hand side
PivotedBy(M, x, M2, x2, k, r) ==
    /\ M2[k] = M[r]
    /\ x2[k] = x[r]
    /\ \A i \in 1..(k - 1) : M2[i] = M[i] /\ x2[i] = x[i]
    /\ \A i \in (k + 1)..Len(M) :
         \E f \in {RDiv(M[RowBeforeSwap(i, k, r)][k],
                        IF M[r][k] = R0 THEN R1 ELSE M[r][k])} :
           /\ \A j \in k..Len(M) :
                  M2[i][j] = RSub(M[RowBeforeSwap(i, k, r)][j], RMul(f, M[r][j]))
           /\ x2[i] = RSub(x[RowBeforeSwap(i, k, r)], RMul(f, x[r]))

\* C22: at every elimination step k the pivot row is the row i >= k with
\* the largest |M[i][k]|, the lowest such index on ties, and it is swapped
\* into position k together with its right-hand-side entry: each row stays
\* paired with its own right-hand-side value throughout elimination.
C22_PartialPivoting ==
    [][(pc = "eliminate" /\ lin.k <= Len(lin.x)) =>
          PivotedBy(lin.M, lin.x, lin'.M, lin'.x, lin.k,
                    LowestLargest(lin.M, lin.k))]_vars

\* the first step of a 3 x 3 system whose rows 2 and 3 tie for the pivot
\* has put row 2 and its right-hand side first, and row 1 with its own
\* right-hand side second
C22_Witness ==
    /\ pc = "eliminate"
    /\ lin.k = 2
    /\ Len(lin.b) = 3
    /\ lin.A[1][1] = R0
    /\ lin.A[2][1] = <<1, 2>>
    /\ lin.A[3][1] = <<1, 2>>
    /\ lin.b = <<R0, R1, R1>>
    /\ lin.M[1] = lin.A[2] /\ lin.x[1] = lin.b[2]
    /\ lin.M[2] = lin.A[1] /\ lin.x[2] = lin.b[1]

---------------------------------------------------------------------------
(* Properties of panelInfluence (specification FrameSpec, the calls of      *)
(* velocityFromPanels).                                                     *)

\* the local components (t, n) of a panel of direction (c, s), in global axes
InGlobalAxes(c, s, t, n) ==
    <<RSub(RMul(t, c), RMul(n, s)), RAdd(RMul(t, s), RMul(n, c))>>

\* the panel idx of the call and the terms of the query point at it
PanelAt(idx) == heap[heap[Obj("solution.panels", 0)][idx]]
InfluenceComputed(idx) == Obj("vortexVelocity", idx) \in DOMAIN heap

\* C23: for every panel and every evaluation point the vortex velocity is
\* the source velocity rotated by -90 degrees,
\* vortexVelocity = (sourceVelocity.y, -sourceVelocity.x), the local
\* components being (log term, angle term)/2pi for the source and
\* (angle term, -log term)/2pi for the vortex.
C23_VortexIsRotatedSource ==
    frame.fn = "velocityFromPanels" =>
        \A idx \in 1..Len(heap[Obj("solution.panels", 0)]) :
            InfluenceComputed(idx) =>
                /\ heap[Obj("vortexVelocity", idx)]
                       = << heap[Obj("sourceVelocity", idx)][2],
                            RNeg(heap[Obj("sourceVelocity", idx)][1]) >>
                /\ heap[Obj("sourceVelocity", idx)]
                       = InGlobalAxes(unitTangent(PanelAt(idx))[1],
                                      unitTangent(PanelAt(idx))[2],
                                      frame.terms[idx].sT, frame.terms[idx].sN)
                /\ heap[Obj("vortexVelocity", idx)]
                       = InGlobalAxes(unitTangent(PanelAt(idx))[1],
                                      unitTangent(PanelAt(idx))[2],
                                      frame.terms[idx].sN, RNeg(frame.terms[idx].sT))

\* the influence of a slanted panel with both terms different from zero
C23_Witness ==
    /\ frame.fn = "velocityFromPanels"
    /\ InfluenceComputed(2)
    /\ unitTangent(PanelAt(2)) = << <<-3, 5>>, <<-4, 5>> >>
    /\ frame.terms[2].sT # R0
    /\ frame.terms[2].sN # R0
    /\ heap[Obj("sourceVelocity", 2)][1] # R0
    /\ heap[Obj("sourceVelocity", 2)][2] # R0

---------------------------------------------------------------------------
(* Properties of the sequence returned by integrateStreamline              *)
(* (specification StreamSpec).                                              *)

\* C24, as stated: the returned sequence never contains the seed.
C24_NeverContainsSeed ==
    \A k \in 1..Len(stream.points) : stream.points[k] # stream.seed

\* C24, amended: the sequence does not begin with the seed; its k-th point
\* is the tracer position after k completed steps, so its length is the
\* number of completed steps and it is empty when marching stops before
\* the first step completes.  (A later point may coincide with the seed.)
C24_PointsAreCompletedSteps ==
    /\ [](/\ Len(stream.points) = stream.i
          /\ stream.p = StepOrigin(Len(stream.points))
          /\ (pc = "streamed" /\ stream.i = 0) => stream.points = <<>>)
    /\ [][\/ stream'.points = stream.points
          \/ /\ stream'.points = Append(stream.points, stream'.p)
             /\ stream'.i = stream.i + 1]_vars

\* a tracer in the field at rest, marched without the stagnation exit,
\* has returned 380 points, all of them at the seed
C24_Witness ==
    /\ pc = "streamed"
    /\ ~stream.stagnationExit
    /\ Len(stream.points) = maxSteps
    /\ \A k \in 1..Len(stream.points) : stream.points[k] = stream.seed

---------------------------------------------------------------------------
(* Properties of findTrailingEdgePanels (specification Spec).               *)

\* C25: for every panel set with at least two panels, also one with a
\* control point exactly on y = 0, findTrailingEdgePanels returns two
\* different panel indices.
C25_DistinctTrailingPanels ==
    (te # NoTE /\ Len(panels) >= 2) => te.upperIndex # te.lowerIndex

---------------------------------------------------------------------------
(* Properties of the solver at rest (specification SolveSpec).              *)

\* C26: solveLinearSystem returns the all-zero vector whenever b is all
\* zeros, for every matrix A including singular ones; so with freestream
\* speed 0 solvePanelMethod returns zero source strengths, zero
\* circulation, zero tangential velocity and Cp = 1 on every panel.
C26_ZeroRhsZeroSolution ==
    /\ (pc \in {"solved", "returned"} /\ \A i \in 1..Len(sys.b) : sys.b[i] = R0)
          => \A i \in 1..Len(lin.solution) : lin.solution[i] = BRat(R0)
    /\ (Returned /\ inp.Vinf = 0)
          => /\ out.gamma = BRat(R0)
             /\ \A i \in 1..Len(out.panels) :
                    /\ out.sigma[i] = BRat(R0)
                    /\ out.vt[i] = BRat(R0)
                    /\ out.cp[i] = BRat(R1)

\* a solve at rest on a singular system, direction of the freestream
\* off the axes
C26_Witness ==
    /\ Returned
    /\ inp.Vinf = 0
    /\ inp.sinA # R0
    /\ lin.floored # {}
    /\ Len(out.panels) >= 3
    /\ out.cp[1] = BRat(R1)

---------------------------------------------------------------------------
(* Properties of the chain of panels (specification Spec).                  *)

\* C27: the panels form one continuous closed chain in emission order:
\* each panel's end is the next panel's start and the last panel's end is
\* the first panel's start, for any input whose first and last points are
\* identical or which is auto-closed, also when zero-length segments were
\* dropped or the order was reversed.
C27_ClosedChain ==
    (Built /\ Len(contour) >= 3 /\ ExactlyClosedOrAutoClosed) =>
        /\ \A k \in 1..(Len(panels) - 1) : panels[k].end = panels[k + 1].start
        /\ Len(panels) > 0 => panels[Len(panels)].end = panels[1].start

\* the chain of an auto-closed loop that was reversed and lost a
\* zero-length segment
C27_Witness ==
    /\ Built
    /\ Len(contour) >= 3
    /\ Dist2(contour[1], contour[Len(contour)]) >= CloseTolSq
    /\ polygonArea(closed) > 0
    /\ ZeroPairs(closed) >= 1
    /\ Len(panels) >= 3
    /\ panels[Len(panels)].end = contour[1]
    /\ panels[1].start = contour[1]

---------------------------------------------------------------------------
(* The two variants of integrateStreamline on the same arguments: the one   *)
(* of the first scene (part_001), which leaves the loop when the speed at   *)
(* the tracer is below 1e-3, then the one of the second scene (part_002),   *)
(* which has no such test.  stream holds the arguments and one run record   *)
(* [p, i, points, done, stagnated] per variant.                             *)

\* a test that fires at positions of full speed
stagnationBreakWhenFast(exit, v) == exit /\ ~belowStagnationSpeed(v)

\* part_001 line 40: if (speed < 1e-3) break, absent from part_002
stagnationBreak(exit, v) == exit /\ belowStagnationSpeed(v)

\* delta of one iteration from p
rk4Delta(field, p, step) ==
    LET k1 == rkStage(field, p, step)
        k2 == rkStage(field, VAdd(p, VHalf(k1)), step)
        k3 == rkStage(field, VAdd(p, VHalf(k2)), step)
        k4 == rkStage(field, VAdd(p, k3), step)
    IN  weightedMean(k1, k2, k3, k4)

\* the end of an iteration: p = p.add(delta), the push and the domain test
moveTracer(r, q, chord) ==
    [r EXCEPT !.p = q, !.i = @ + 1, !.points = pushPoint(@, q),
              !.done = outsideDomain(q, chord)]

\* one pass through the loop of a variant
marchIteration(r, field, chord, exit) ==
    IF ~loopContinues(r.i) THEN [r EXCEPT !.done = TRUE]
    ELSE IF stagnationBreak(exit, velocityAt(field, r.p))
    THEN [r EXCEPT !.done = TRUE, !.stagnated = TRUE]
    ELSE moveTracer(r, VAdd(r.p, rk4Delta(field, r.p, stepLength(chord))), chord)

NewRun(seed) ==
    [p |-> seed, i |-> 0, points |-> <<>>, done |-> FALSE, stagnated |-> FALSE]

VariantInit ==
    /\ pc = "with exit"
    /\ contour = <<>>
    /\ closed = <<>>
    /\ points = <<>>
    /\ panels = <<>>
    /\ te = NoTE
    /\ inp = NoInput
    /\ sys = NoSystem
    /\ lin = NoSolve
    /\ out = NoOutput
    /\ vel = NoVelocity
    /\ heap = NoHeap
    /\ frame = NoFrame
    /\ scene = NoScene
    /\ foil = NoFoil
    /\ lift = NoLift
    /\ \E s \in StreamSeeds, f \in StreamFields, c \in StreamChords :
           stream = [seed |-> s, field |-> f, chord |-> c,
                     withExit |-> NewRun(s), withoutExit |-> NewRun(s)]

\* an iteration of the variant of part_001
VariantMarchWithExit ==
    /\ pc = "with exit"
    /\ \E r \in {marchIteration(stream.withExit, stream.field, stream.chord, TRUE)} :
           /\ stream' = [stream EXCEPT !.withExit = r]
           /\ pc' = IF r.done THEN "without exit" ELSE pc
    /\ UNCHANGED <<geomVars, solveVars, evalVars>>

\* an iteration of the variant of part_002
VariantMarchWithoutExit ==
    /\ pc = "without exit"
    /\ \E r \in {marchIteration(stream.withoutExit, stream.field, stream.chord, FALSE)} :
           /\ stream' = [stream EXCEPT !.withoutExit = r]
           /\ pc' = IF r.done THEN "both returned" ELSE pc
    /\ UNCHANGED <<geomVars, solveVars, evalVars>>

VariantNext == VariantMarchWithExit \/ VariantMarchWithoutExit

VariantSpec == VariantInit /\ [][VariantNext]_vars

---------------------------------------------------------------------------
(* Properties of the two variants (specification VariantSpec).              *)

\* the positions the tracer of the variant without the exit was at
VisitedPositions ==
    {stream.seed} \cup {stream.withoutExit.points[k] :
                            k \in 1..Len(stream.withoutExit.points)}

IsPrefixOf(s, t) == Len(s) <= Len(t) /\ SubSeq(t, 1, Len(s)) = s

\* C28: for any seed, chord and field whose speed at every visited tracer
\* position is at least 1e-3 both variants return the same point sequence;
\* when the stagnation exit fires, the sequence of the variant with the
\* exit is a prefix of the other variant's sequence.
C28_VariantsAgree ==
    pc = "both returned" =>
        /\ (\A q \in VisitedPositions : velocityAt(stream.field, q).mag = "fast")
              => stream.withExit.points = stream.withoutExit.points
        /\ ~stream.withExit.stagnated
              => stream.withExit.points = stream.withoutExit.points
        /\ stream.withExit.stagnated
              => IsPrefixOf(stream.withExit.points, stream.withoutExit.points)

\* the exit fired after some steps and the other variant marched on
C28_Witness ==
    /\ pc = "both returned"
    /\ stream.withExit.stagnated
    /\ Len(stream.withExit.points) >= 2
    /\ Len(stream.withoutExit.points) > Len(stream.withExit.points)
    /\ IsPrefixOf(stream.withExit.points, stream.withoutExit.points)

---------------------------------------------------------------------------
(* The airfoil scene (createAirfoilScene of part_001 and part_002) and the  *)
(* GPU resources it creates.  scene holds the number of geometries and      *)
(* materials created so far, the set of disposed ones, the geometry and     *)
(* material of every reachable line, the children of streamlineGroup, the   *)
(* resources made for streamline lines and the state last passed to update. *)

MaxStreamlines == 7
MaxUpdates == 3

\* app.tsx lines 220-223: the range input of streamlineCount starts at 6
MinStreamlines == 6

SceneStates ==
    [showStreamlines : BOOLEAN, streamlineCount : MinStreamlines..MaxStreamlines]

\* the lines made at construction: part_001 has one, part_002 five
fixedLines(variant) ==
    IF variant = 1 THEN <<"airfoilLine">>
    ELSE <<"airfoilLine", "pressureUpper", "pressureLower", "shearUpper", "shearLower">>

isStreamline(line) == line[1] = "streamline"

\* new THREE.Line(new THREE.BufferGeometry(), new THREE.LineBasicMaterial(..))
newLine(sc, line) ==
    LET g == Obj("geometry", sc.geometries + 1)
        m == Obj("material", sc.materials + 1)
    IN  [sc EXCEPT !.geometries = @ + 1,
                   !.materials = @ + 1,
                   !.lines = (line :> [geometry |-> g, material |-> m]) @@ @,
                   !.forStreamlines = IF isStreamline(line) THEN @ \cup {g, m} ELSE @]

\* updateLineGeometry: a new geometry, line.geometry.dispose(), assignment
updateLineGeometry(sc, line) ==
    LET g == Obj("geometry", sc.geometries + 1)
    IN  [sc EXCEPT !.geometries = @ + 1,
                   !.disposed = @ \cup {sc.lines[line].geometry},
                   !.lines[line].geometry = g,
                   !.forStreamlines = IF isStreamline(line) THEN @ \cup {g} ELSE @]

RECURSIVE updateFixedLines(_, _, _)
updateFixedLines(sc, names, i) ==
    IF i > Len(names) THEN sc
    ELSE updateFixedLines(updateLineGeometry(sc, Obj(names[i], 0)), names, i + 1)

RECURSIVE newFixedLines(_, _, _)
newFixedLines(sc, names, i) ==
    IF i > Len(names) THEN sc
    ELSE newFixedLines(newLine(sc, Obj(names[i], 0)), names, i + 1)

\* a clearing that leaves the materials of the children alone
clearGeometriesOnly(sc) ==
    [sc EXCEPT !.disposed = @ \cup {sc.lines[sc.group[i]].geometry : i \in 1..Len(sc.group)},
               !.lines = [l \in {x \in DOMAIN @ : ~isStreamline(x)} |-> @[l]],
               !.group = <<>>]

\* clearStreamlines: dispose geometry and material of each child, group.clear()
clearStreamlines(sc) ==
    [sc EXCEPT !.disposed = @ \cup {sc.lines[sc.group[i]].geometry : i \in 1..Len(sc.group)}
                              \cup {sc.lines[sc.group[i]].material : i \in 1..Len(sc.group)},
               !.lines = [l \in {x \in DOMAIN @ : ~isStreamline(x)} |-> @[l]],
               !.group = <<>>]

\* one pass of streamlineSets.forEach: a line, its geometry, group.add(line)
addStreamline(sc) ==
    LET line == Obj("streamline", sc.streamlines + 1)
        made == updateLineGeometry(newLine(sc, line), line)
    IN  [made EXCEPT !.streamlines = @ + 1, !.group = Append(@, line)]

RECURSIVE addStreamlines(_, _)
addStreamlines(sc, n) ==
    IF n <= 0 THEN sc ELSE addStreamlines(addStreamline(sc), n - 1)

\* update(state)
update(sc, state) ==
    LET cleared == clearStreamlines(updateFixedLines(sc, fixedLines(sc.variant), 1))
        drawn == IF state.showStreamlines
                 THEN addStreamlines(cleared, state.streamlineCount)
                 ELSE cleared
    IN  [drawn EXCEPT !.state = state, !.updates = @ + 1]

\* dispose(): the geometries of the lines made at construction
dispose(sc) ==
    [sc EXCEPT !.disposed = @ \cup {sc.lines[Obj(fixedLines(sc.variant)[i], 0)].geometry :
                                       i \in 1..Len(fixedLines(sc.variant))}]

\* createAirfoilScene up to its first update(getState())
createAirfoilScene(variant, state) ==
    update(newFixedLines([created |-> TRUE, variant |-> variant,
                          geometries |-> 0, materials |-> 0, streamlines |-> 0,
                          disposed |-> {}, lines |-> <<>>, group |-> <<>>,
                          forStreamlines |-> {}, state |-> state, updates |-> 0],
                         fixedLines(variant), 1),
           state)

SceneInit ==
    /\ pc = "scene live"
    /\ contour = <<>>
    /\ closed = <<>>
    /\ points = <<>>
    /\ panels = <<>>
    /\ te = NoTE
    /\ inp = NoInput
    /\ sys = NoSystem
    /\ lin = NoSolve
    /\ out = NoOutput
    /\ stream = NoStream
    /\ vel = NoVelocity
    /\ heap = NoHeap
    /\ frame = NoFrame
    /\ foil = NoFoil
    /\ lift = NoLift
    /\ \E variant \in {1, 2}, state \in SceneStates :
           scene = createAirfoilScene(variant, state)

\* the store's subscription calls scene.update(s)
SceneUpdate ==
    /\ pc = "scene live"
    /\ scene.updates <= MaxUpdates
    /\ \E state \in SceneStates : scene' = update(scene, state)
    /\ UNCHANGED <<pc, geomVars, solveVars, stream, vel, foil, lift, heap, frame>>

\* the effect's cleanup: unsub() and scene.dispose()
SceneDispose ==
    /\ pc = "scene live"
    /\ scene' = dispose(scene)
    /\ pc' = "scene disposed"
    /\ UNCHANGED <<geomVars, solveVars, stream, vel, foil, lift, heap, frame>>

SceneNext == SceneUpdate \/ SceneDispose

SceneSpec == SceneInit /\ [][SceneNext]_vars

---------------------------------------------------------------------------
(* Properties of the scene's resources (specification SceneSpec).           *)

GroupGeometries == {scene.lines[scene.group[i]].geometry : i \in 1..Len(scene.group)}
GroupMaterials == {scene.lines[scene.group[i]].material : i \in 1..Len(scene.group)}

\* C29: after any sequence of updates the undisposed streamline geometries
\* and materials are exactly those of the lines in the streamline group,
\* and the group holds streamlineCount lines when showStreamlines is true
\* and none when it is false.
C29_OnlyCurrentStreamlinesLive ==
    scene.created =>
        /\ scene.forStreamlines \ scene.disposed = GroupGeometries \cup GroupMaterials
        /\ Cardinality(GroupGeometries) = Len(scene.group)
        /\ Cardinality(GroupMaterials) = Len(scene.group)
        /\ Len(scene.group) = IF scene.state.showStreamlines
                              THEN scene.state.streamlineCount ELSE 0

\* streamlines were drawn, cleared by a later update and drawn again
C29_Witness ==
    /\ pc = "scene live"
    /\ scene.updates >= 3
    /\ scene.state.showStreamlines
    /\ Len(scene.group) = scene.state.streamlineCount
    /\ scene.streamlines > Len(scene.group)
    /\ \E o \in scene.forStreamlines : o \in scene.disposed /\ o[1] = "material"

\* C30: after dispose() every geometry the scene created has been disposed,
\* those of the streamline lines of the last update included.
C30_AllGeometriesDisposed ==
    pc = "scene disposed" =>
        \A k \in 1..scene.geometries : Obj("geometry", k) \in scene.disposed

=============================================================================
